---- MODULE Spec2Model ----
(***************************************************************************)
(* State-machine model of the two web servers of the repository            *)
(* (server/sequential_server.py, server/concurrent_server.py) together     *)
(* with the request parser (core/http_utils.py), the identity check        *)
(* (core/crypto_utils.py) and the handlers (core/server_handlers.py).      *)
(*                                                                         *)
(* Text is modelled after split('\r\n'): a raw request is a sequence of    *)
(* lines and a line is the sequence of its whitespace-separated tokens,    *)
(* where a colon is a token of its own.  The empty line is << >>.          *)
(*                                                                         *)
(* Threads: the main thread runs the accept loop; the signal handler       *)
(* (stop) runs on the main thread, between two steps of the loop; each     *)
(* task handed to the ThreadPoolExecutor is run by one worker thread and   *)
(* is identified by its connection.                                        *)
(*                                                                         *)
(* Spec runs a whole server, with _receive_request as one step that        *)
(* returns some request text; FairSpec adds the scheduling of the          *)
(* threads; SpecRecv follows one accepted connection with the receive      *)
(* loop taken recv() by recv(), the bytes being a sequence of units        *)
(* (the pieces of the lines, "CRLF", body bytes).                          *)
(*                                                                         *)
(* SpecResp takes one request text through HTTPRequest, the handlers and   *)
(* HTTPResponse.to_bytes, and parses the bytes written with HTTPRequest    *)
(* again.  SpecMetrics follows one PerformanceMetrics object               *)
(* (tests/metrics.py): samples, start_test, end_test, the clock and        *)
(* calculate_metrics.                                                      *)
(* SpecSend follows one connection with sendall writing any part of the    *)
(* response; LiveSpec is Spec with every thread scheduled on its own.      *)
(***************************************************************************)
EXTENDS Integers, Sequences, FiniteSets, TLC

\* ------------------------------------------------------------- bounds
\* Number of connections the peers open during one run.
NumConns == 3

\* Worker-pool size, the max_workers argument of ConcurrentWebServer
\* (main() passes min(cpu_count() * 2, 20)); kept small here.
max_workers == 2

Conns == 1..NumConns

\* ------------------------------------------------------- text helpers
None == "None"

\* Holders of self.stats_lock: nobody, the main thread, the worker thread
\* that runs connection c's task.
Free == << >>
Main == <<"MainThread">>
Worker(c) == <<"Worker", c>>

\* str.upper() on the method tokens that occur in the inputs.
Upper(s) ==
    CASE s = "get"  -> "GET"
      [] s = "post" -> "POST"
      [] s = "head" -> "HEAD"
      [] s = "put"  -> "PUT"
      [] OTHER      -> s

\* str.lower() on the header names that occur in the inputs.
Lower(s) ==
    CASE s = "X-Custom-ID" -> "x-custom-id"
      [] s = "X-CUSTOM-ID" -> "x-custom-id"
      [] s = "Host"        -> "host"
      [] s = "Content-Length" -> "content-length"
      [] s = "CONTENT-LENGTH" -> "content-length"
      [] s = "Server"         -> "server"
      [] s = "Date"           -> "date"
      [] s = "Connection"     -> "connection"
      [] s = "Content-Type"   -> "content-type"
      [] OTHER             -> s

\* The tokens of a sequence from position a to position b.
Slice(s, a, b) == [i \in 1..(IF b >= a THEN b - a + 1 ELSE 0) |-> s[a + i - 1]]

\* ------------------------------------------------------ crypto_utils
\* hexdigest of hashlib.sha1("5217 Marina Conrado Moreira Santos"): one
\* fixed string, the same at every call.
MATRICULA == "5217"
NOME_ALUNO == "Marina Conrado Moreira Santos"
HASH_ALGORITHM == "sha1"

\* Strings of exactly 4 decimal digits that occur as matricula.
FourDigits == {"5217", "0000"}

\* hashlib.<algoritmo>(f"{matricula} {nome_aluno}".encode('utf-8')).hexdigest()
\* on the arguments used here.
hexdigest(algoritmo, matricula, nome_aluno) ==
    CASE algoritmo = "sha1" /\ matricula = "5217" -> "5c31541dd9f364c46c15e84d0e53d7fe1a0cb250"
      [] algoritmo = "md5"  /\ matricula = "5217" -> "bbcc45e7d49b35105fc7db3efd23d89e"
      [] algoritmo = "sha1" /\ matricula = "0000" -> "15500c4cf49c7f37f5c07d0a29a35d5188179abe"
      [] algoritmo = "md5"  /\ matricula = "0000" -> "3c2835ac1bf27b78f6389600c6821d62"

\* calcular_hash_aluno with its defaults filled in by the caller; the
\* three raise statements give "ValueError".
calcular_hash_aluno(matricula, nome_aluno, algoritmo) ==
    IF matricula = "" \/ nome_aluno = "" THEN "ValueError"
    ELSE IF matricula \notin FourDigits THEN "ValueError"
    ELSE IF algoritmo \notin {"md5", "sha1"} THEN "ValueError"
    ELSE hexdigest(algoritmo, matricula, nome_aluno)

gerar_custom_id == calcular_hash_aluno(MATRICULA, NOME_ALUNO, HASH_ALGORITHM)

\* Variant: the comparison ignores the case of the hexadecimal digits.
validar_custom_id_AnyCase(custom_id) ==
    custom_id \in { <<gerar_custom_id>>, <<"5C31541DD9F364C46C15E84D0E53D7FE1A0CB250">> }

validar_custom_id(custom_id) == custom_id = <<gerar_custom_id>>

\* ------------------------------------------------------- HTTPRequest
\* Position of the first empty line after the request line, 0 when none.
BlankPos(lines) ==
    LET ps == {p \in 2..Len(lines) : lines[p] = << >>}
    IN IF ps = {} THEN 0 ELSE CHOOSE p \in ps : \A q \in ps : p <= q

\* Position of the first colon of a line, 0 when none.
ColonPos(line) ==
    LET ps == {p \in 1..Len(line) : line[p] = ":"}
    IN IF ps = {} THEN 0 ELSE CHOOSE p \in ps : \A q \in ps : p <= q

HeaderKey(line) ==
    LET k == Slice(line, 1, ColonPos(line) - 1)
    IN [i \in 1..Len(k) |-> Lower(k[i])]

HeaderVal(line) == Slice(line, ColonPos(line) + 1, Len(line))

\* The header lines: from line 2 up to the first empty line.
HeaderLines(lines) ==
    IF BlankPos(lines) = 0 THEN Slice(lines, 2, Len(lines))
    ELSE Slice(lines, 2, BlankPos(lines) - 1)

\* self.headers[key] after the loop: the last line carrying the key wins.
HasHeader(lines, key) ==
    \E i \in 1..Len(HeaderLines(lines)) :
        /\ ColonPos(HeaderLines(lines)[i]) > 0
        /\ HeaderKey(HeaderLines(lines)[i]) = key

\* Variant: the first line carrying the key wins.
HeaderGet_First(lines, key) ==
    LET hl == HeaderLines(lines)
        ps == {i \in 1..Len(hl) : ColonPos(hl[i]) > 0 /\ HeaderKey(hl[i]) = key}
        first == CHOOSE p \in ps : \A q \in ps : p <= q
    IN HeaderVal(hl[first])

HeaderGet(lines, key) ==
    LET hl == HeaderLines(lines)
        ps == {i \in 1..Len(hl) : ColonPos(hl[i]) > 0 /\ HeaderKey(hl[i]) = key}
        last == CHOOSE p \in ps : \A q \in ps : q <= p
    IN HeaderVal(hl[last])

\* body_start stays 0 when no empty line is found, so the body is then
\* the join of every line; None when the empty line is the last line.
ParseBody(lines) ==
    IF BlankPos(lines) = 0 THEN lines
    ELSE Slice(lines, BlankPos(lines) + 1, Len(lines))

\* Truth value of the parsed body: None and "" are false.
BodyTruthy(body) == ~(Len(body) = 0 \/ (Len(body) = 1 /\ body[1] = << >>))

XCustomId == <<"x-custom-id">>

\* HTTPRequest(raw_request): the fields _parse_request leaves.
ParseRequest(lines) ==
    LET parts   == lines[1]
        has3    == Len(parts) >= 3
        method  == IF has3 THEN Upper(parts[1]) ELSE None
        path    == IF has3 THEN parts[2] ELSE None
        version == IF has3 THEN parts[3] ELSE None
    IN [ method  |-> method,
         path    |-> path,
         version |-> version,
         body    |-> ParseBody(lines),
         has_cid |-> HasHeader(lines, XCustomId),
         valid   |-> /\ method \in {"GET", "POST", "HEAD"}
                     /\ path # None
                     /\ version # None,
         custom_id_valid |->
             IF HasHeader(lines, XCustomId)
             THEN validar_custom_id(HeaderGet(lines, XCustomId))
             ELSE FALSE ]

\* Variant: the identity check left out of is_valid().
is_valid_OnlyStructure(request) == request.valid

\* Variant: is_valid() looks at the identity header only.
is_valid_OnlyIdentity(request) == request.custom_id_valid

is_valid(request) == request.valid /\ request.custom_id_valid

\* Variant: a request without the header is reported like one with a
\* wrong value.
get_custom_id_status_NoMissing(request) ==
    IF request.custom_id_valid THEN "VALID" ELSE "INVALID"

get_custom_id_status(request) ==
    IF ~request.has_cid THEN "MISSING"
    ELSE IF request.custom_id_valid THEN "VALID"
    ELSE "INVALID"

\* ------------------------------------------------ _receive_request
\* The bytes on a connection are a sequence of units: the pieces of a line
\* (as in the lines above), "CRLF" for "\r\n", a body byte "x", and "0xFF",
\* a byte that is no valid UTF-8.
CRLF == "CRLF"
BadByte == "0xFF"

\* len() of one unit as far as the framing arithmetic needs it: the units
\* behind the header terminator are single bytes or "\r\n".
UnitBytes(u) == IF u = CRLF THEN 2 ELSE 1

RECURSIVE ByteLen(_)
ByteLen(units) ==
    IF Len(units) = 0 THEN 0 ELSE UnitBytes(Head(units)) + ByteLen(Tail(units))

\* bytes.decode('utf-8', errors='ignore'): the invalid bytes are dropped.
Decode(units) == SelectSeq(units, LAMBDA u : u # BadByte)

\* str.split('\r\n')
RECURSIVE SplitLines(_)
SplitLines(units) ==
    LET ps == {p \in 1..Len(units) : units[p] = CRLF}
        first == CHOOSE p \in ps : \A q \in ps : p <= q
    IN IF ps = {} THEN << SubSeq(units, 1, Len(units)) >>
       ELSE << SubSeq(units, 1, first - 1) >>
            \o SplitLines(SubSeq(units, first + 1, Len(units)))

\* request_data.find(b'\r\n\r\n'): position of the first unit of the
\* header terminator, 0 when it has not been received.
headers_end(data) ==
    LET ps == {p \in 1..(Len(data) - 1) : data[p] = CRLF /\ data[p + 1] = CRLF}
    IN IF ps = {} THEN 0 ELSE CHOOSE p \in ps : \A q \in ps : p <= q

\* b'\r\n\r\n' in request_data
HasTerminator(data) == headers_end(data) # 0

\* int(text) on the values that occur; anything else raises ValueError.
IsInt(t) == t \in {"0", "1", "2", "3", "-1"}
IntOf(t) ==
    CASE t = "0" -> 0
      [] t = "1" -> 1
      [] t = "2" -> 2
      [] t = "3" -> 3
      [] t = "-1" -> 0 - 1

\* line.lower().startswith('content-length:')
IsContentLength(line) ==
    Len(line) >= 2 /\ Lower(line[1]) = "content-length" /\ line[2] = ":"

\* int(line.split(':')[1].strip()), 0 when it raises.
ContentLengthValue(line) ==
    LET rest == SubSeq(line, 3, Len(line))
        val  == IF ColonPos(rest) = 0 THEN rest ELSE SubSeq(rest, 1, ColonPos(rest) - 1)
    IN IF Len(val) = 1 /\ IsInt(val[1]) THEN IntOf(val[1]) ELSE 0

\* content_length: taken from the first line of the header block that
\* starts with "content-length:", 0 when there is none.
ContentLength(data) ==
    LET hl == SplitLines(Decode(SubSeq(data, 1, headers_end(data) - 1)))
        ps == {p \in 1..Len(hl) : IsContentLength(hl[p])}
        first == CHOOSE p \in ps : \A q \in ps : p <= q
    IN IF ps = {} THEN 0 ELSE ContentLengthValue(hl[first])

\* len(request_data) - (headers_end + 4)
BodyLen(data) == ByteLen(SubSeq(data, headers_end(data) + 2, Len(data)))

\* Variant: the body loop stops one byte early.
BodyPending_OffByOne(received, content_length) == received + 1 < content_length

\* "while body_received < content_length"
BodyPending(received, content_length) == received < content_length

\* Variant: _receive_request returns "" whatever it accumulated.
ReturnedText_Dropped(data) == << >>

\* "request_data.decode('utf-8', errors='ignore') if request_data else ''",
\* as the lines HTTPRequest splits it into; << >> for the empty string.
ReturnedText(data) ==
    IF Len(Decode(data)) = 0 THEN << >> ELSE SplitLines(Decode(data))

\* ---------------------------------------------------------- handlers
GetPaths == {"/", "/status", "/info", "/time"}

\* Variant: an unknown path answered 403 instead of 404.
handle_get_Forbidden(request) == IF request.path \in GetPaths THEN 200 ELSE 403

handle_get(request) == IF request.path \in GetPaths THEN 200 ELSE 404

\* Variant: /echo and /hash answered 200 without looking at the body.
handle_post_AnyBody(request) ==
    IF request.path \in {"/echo", "/hash"} THEN 200 ELSE 405

handle_post(request) ==
    IF request.path = "/echo" THEN (IF BodyTruthy(request.body) THEN 200 ELSE 400)
    ELSE IF request.path = "/hash" THEN (IF BodyTruthy(request.body) THEN 200 ELSE 400)
    ELSE 405

handle_head(request) == IF request.path \in GetPaths THEN 200 ELSE 404

\* Status of the response process_request returns.
process_request(request) ==
    IF request.method = "GET" THEN handle_get(request)
    ELSE IF request.method = "POST" THEN handle_post(request)
    ELSE IF request.method = "HEAD" THEN handle_head(request)
    ELSE 405

\* How often the handlers run "self.requests_served += 1" for a request:
\* handle_head does it and, for a known path, calls handle_get, which
\* does it again.
ServedIncrements(request) ==
    IF request.method = "HEAD" /\ request.path \in GetPaths THEN 2
    ELSE IF request.method \in {"GET", "POST", "HEAD"} THEN 1
    ELSE 0

\* Variant: the identity header checked before the structure.
RejectStatus_AuthFirst(request) ==
    IF ~request.custom_id_valid THEN 401
    ELSE 400

\* Status of the error response _handle_client builds for a request that
\* fails is_valid().
RejectStatus(request) ==
    IF ~request.valid THEN 400
    ELSE IF ~request.custom_id_valid THEN 401
    ELSE 400

\* ------------------------------------------------------ HTTPResponse
\* A text is a sequence of CRLF-separated lines of tokens; the tokens of a
\* line are separated by one space, a colon follows its key directly.
\* len() of the tokens that occur in bodies; any other token stands for
\* one character.
CharLen(t) ==
    CASE t = "xyz" -> 3
      [] t = "ação" -> 4
      [] t = "<html>" -> 6
      [] t = "{json}" -> 6
      [] t = "Error" -> 5
      [] t \in {"400", "401", "404", "405", "500", "GET", "PUT"} -> 3
      [] t \in {"POST", "HEAD", "Host", "post"} -> 4
      [] t \in {"/echo", "/hash", "/nope"} -> 5
      [] t \in {"HTTP/1.1", "deadbeef"} -> 8
      [] t \in {"5c31541dd9f364c46c15e84d0e53d7fe1a0cb250", "5C31541DD9F364C46C15E84D0E53D7FE1A0CB250"} -> 40
      [] t = "5c31541dd9f364c46c15e84d0e53d7fe1a0cb25" -> 39
      [] t \in {"X-Custom-ID", "X-CUSTOM-ID"} -> 11
      [] OTHER -> 1

\* Tokens with one character that takes two bytes in UTF-8.
NonAscii == {"ação", "ç"}

\* len(t) when ~bytes, len(t.encode('utf-8')) when bytes.
TokLen(t, bytes) == IF bytes /\ t \in NonAscii THEN CharLen(t) + 1 ELSE CharLen(t)

RECURSIVE LineLen(_, _)
LineLen(line, bytes) ==
    IF Len(line) = 0 THEN 0
    ELSE IF Len(line) = 1 THEN TokLen(line[1], bytes)
    ELSE TokLen(line[1], bytes) + (IF line[2] = ":" THEN 0 ELSE 1)
         + LineLen(Tail(line), bytes)

RECURSIVE TextLen(_, _)
TextLen(lines, bytes) ==
    IF Len(lines) = 0 THEN 0
    ELSE IF Len(lines) = 1 THEN LineLen(lines[1], bytes)
    ELSE LineLen(lines[1], bytes) + 2 + TextLen(Tail(lines), bytes)

HtmlType == <<"text/html;", "charset=utf-8">>
PlainType == <<"text/plain;", "charset=utf-8">>
JsonType == <<"application/json;", "charset=utf-8">>

\* HTTPResponse(status_code, status_message): the four default headers,
\* in the order the dict holds them, and body "".
HTTPResponse(status_code, status_message) ==
    [ status_code |-> status_code,
      status_message |-> status_message,
      headers |-> << [key |-> "Server", value |-> <<"Python-Web-Server/1.0">>],
                     [key |-> "Date", value |-> <<"Thu,", "01", "Jan", "GMT">>],
                     [key |-> "Connection", value |-> <<"close">>],
                     [key |-> "Content-Type", value |-> HtmlType] >>,
      body |-> << >> ]

HeaderIndex(headers, key) ==
    LET ps == {i \in 1..Len(headers) : headers[i].key = key}
    IN IF ps = {} THEN 0 ELSE CHOOSE i \in ps : TRUE

\* self.headers[key] = value: a key already there keeps its place.
set_header(r, key, value) ==
    LET i == HeaderIndex(r.headers, key)
    IN IF i = 0
       THEN [r EXCEPT !.headers = Append(r.headers, [key |-> key, value |-> value])]
       ELSE [r EXCEPT !.headers[i].value = value]

\* Variant: Content-Length counts characters, not bytes.
set_body_CharLength(r, content, content_type) ==
    set_header(set_header([r EXCEPT !.body = content], "Content-Type", content_type),
               "Content-Length", <<ToString(TextLen(content, FALSE))>>)

\* set_body: str(len(content.encode('utf-8')))
set_body(r, content, content_type) ==
    set_header(set_header([r EXCEPT !.body = content], "Content-Type", content_type),
               "Content-Length", <<ToString(TextLen(content, TRUE))>>)

\* json.dumps(data, ensure_ascii=False, indent=2): one text without CRLF,
\* with the non-ASCII letters of the data left as they are.
set_json_body(r, data) == set_body(r, << <<"{json}">> \o data >>, JsonType)

\* status_messages.get(status_code, "Unknown Error")
StatusMessage(status_code) ==
    CASE status_code = 400 -> <<"Bad", "Request">>
      [] status_code = 401 -> <<"Unauthorized">>
      [] status_code = 403 -> <<"Forbidden">>
      [] status_code = 404 -> <<"Not", "Found">>
      [] status_code = 405 -> <<"Method", "Not", "Allowed">>
      [] status_code = 500 -> <<"Internal", "Server", "Error">>
      [] OTHER -> <<"Unknown", "Error">>

\* The page create_error_response formats: the code, the status message
\* and the message of the caller.
create_error_response(status_code, message) ==
    set_body(HTTPResponse(status_code, StatusMessage(status_code)),
             << <<"<html>", "Error", ToString(status_code)>>
                \o StatusMessage(status_code) \o message >>,
             HtmlType)

create_success_response(content, content_type) ==
    set_body(HTTPResponse(200, <<"OK">>), content, content_type)

\* The response objects of the handlers; their status is the one of
\* handle_get, handle_post and handle_head above.
handle_get_response(request) ==
    IF request.path = "/"
    THEN create_success_response(<< <<"<html>", "ç">> >>, HtmlType)
    ELSE IF request.path \in {"/status", "/info"}
    THEN set_json_body(HTTPResponse(handle_get(request), <<"OK">>), <<"ação">>)
    ELSE IF request.path = "/time"
    THEN set_json_body(HTTPResponse(handle_get(request), <<"OK">>), << >>)
    ELSE create_error_response(handle_get(request), <<"Path", request.path, "ç">>)

handle_post_response(request) ==
    IF request.path = "/echo" /\ BodyTruthy(request.body)
    THEN set_body(HTTPResponse(handle_post(request), <<"OK">>), request.body, PlainType)
    ELSE IF request.path = "/hash" /\ BodyTruthy(request.body)
    THEN set_json_body(HTTPResponse(handle_post(request), <<"OK">>), <<"md5", "sha1">>)
    ELSE create_error_response(handle_post(request), <<"ç", "POST">>)

\* Variant: HEAD returns the response of GET as it is.
handle_head_response_WithBody(request) ==
    IF request.path \in GetPaths THEN handle_get_response(request)
    ELSE create_error_response(handle_head(request), <<"Path", request.path, "ç">>)

\* handle_head: response.body = ""; set_header('Content-Length', '0')
handle_head_response(request) ==
    LET r == IF request.path \in GetPaths THEN handle_get_response(request)
             ELSE create_error_response(handle_head(request), <<"Path", request.path, "ç">>)
    IN set_header([r EXCEPT !.body = << >>], "Content-Length", <<"0">>)

process_request_response(request) ==
    IF request.method = "GET" THEN handle_get_response(request)
    ELSE IF request.method = "POST" THEN handle_post_response(request)
    ELSE IF request.method = "HEAD" THEN handle_head_response(request)
    ELSE create_error_response(405, <<"ç", request.method>>)

\* The response _handle_client sends for a parsed request.
Respond(request) ==
    IF is_valid(request) THEN process_request_response(request)
    ELSE create_error_response(RejectStatus(request), <<"ação", "ç">>)

\* '\r\n'.join(lines); the empty list gives "".
RECURSIVE JoinLines(_)
JoinLines(lines) ==
    IF Len(lines) = 0 THEN << >>
    ELSE IF Len(lines) = 1 THEN lines[1]
    ELSE lines[1] \o <<CRLF>> \o JoinLines(Tail(lines))

\* Variant: the status line without the protocol version.
ResponseLines_NoVersion(r) ==
    << <<ToString(r.status_code)>> \o r.status_message >>
    \o [i \in 1..Len(r.headers) |-> <<r.headers[i].key, ":">> \o r.headers[i].value]
    \o << << >> >>
    \o (IF BodyTruthy(r.body) THEN r.body ELSE << >>)

\* response_lines of to_bytes: the status line, one line per header, the
\* empty line, and the body when it is truthy.
ResponseLines(r) ==
    << <<"HTTP/1.1", ToString(r.status_code)>> \o r.status_message >>
    \o [i \in 1..Len(r.headers) |-> <<r.headers[i].key, ":">> \o r.headers[i].value]
    \o << << >> >>
    \o (IF BodyTruthy(r.body) THEN r.body ELSE << >>)

\* HTTPResponse.to_bytes, as units.
to_bytes(r) == JoinLines(ResponseLines(r))

\* ------------------------------------------------------------ inputs
RequestLine(m, p) == <<m, p, "HTTP/1.1">>
IdOk   == <<"X-Custom-ID", ":", gerar_custom_id>>
IdBad  == <<"X-Custom-ID", ":", "deadbeef">>
IdCaps == <<"X-CUSTOM-ID", ":", gerar_custom_id>>
HostLine == <<"Host", ":", "localhost">>

\* "...\r\n\r\n" splits into the lines, "" and "".
NoBody   == << << >>, << >> >>
BodyXyz  == << << >>, <<"xyz">> >>

\* recv() returned no byte at all: _receive_request returns "".
NoData == << >>

\* Requests the peers of the sequential server send.
SeqInputs ==
    { <<RequestLine(m, p)>> \o h \o t :
        m \in {"GET", "post", "HEAD", "PUT"},
        p \in {"/", "/status", "/echo", "/hash", "/nope"},
        h \in { <<HostLine>>, <<HostLine, IdOk>>, <<IdBad>>, <<IdBad, IdCaps>> },
        t \in {NoBody, BodyXyz} }
    \cup { << <<"GET", "/">>, IdOk, << >>, << >> >>,
           << <<"GET", "/">>, HostLine, << >>, << >> >>,
           << RequestLine("POST", "/echo"), IdOk >> }

\* Requests the peers of the concurrent server send: one per outcome.
ConcInputs ==
    { <<RequestLine("GET", "/"), IdOk>> \o NoBody,
      <<RequestLine("GET", "/"), HostLine>> \o NoBody,
      <<RequestLine("PUT", "/"), IdOk>> \o NoBody }

\* ----------------------------------------- byte streams of one peer
PostEcho == <<"POST", "/echo", "HTTP/1.1", CRLF, "X-Custom-ID", ":", gerar_custom_id, CRLF>>

Messages ==
    { <<"GET", "/", "HTTP/1.1", CRLF, "X-Custom-ID", ":", gerar_custom_id, CRLF, CRLF>>,
      <<"GET", "/", "HTTP/1.1", CRLF, "Host", ":", "localhost", CRLF, CRLF>>,
      PostEcho \o <<"Content-Length", ":", "2", CRLF, CRLF, "x", "x", "x">>,
      PostEcho \o <<"CONTENT-LENGTH", ":", "3", CRLF, CRLF, "x", BadByte, "x">>,
      PostEcho \o <<"Content-Length", ":", "0", CRLF, CRLF, "x">>,
      PostEcho \o <<"Content-Length", ":", "abc", CRLF, CRLF, "x">>,
      PostEcho \o <<"Content-Length", ":", "-1", CRLF, "Content-Length", ":", "2", CRLF, CRLF, "x">>,
      PostEcho \o <<CRLF, "x">>,
      <<"PUT", "/", "HTTP/1.1", CRLF, CRLF>>,
      <<BadByte, BadByte>>,
      <<CRLF, CRLF>> }

\* What a peer delivers before it closes or falls silent: any prefix of a
\* message.
Streams == UNION { { SubSeq(m, 1, n) : n \in 0..Len(m) } : m \in Messages }

\* Header values that are close to the token without being it.
IdUpper  == <<"X-Custom-ID", ":", "5C31541DD9F364C46C15E84D0E53D7FE1A0CB250">>
IdPrefix == <<"X-Custom-ID", ":", "5c31541dd9f364c46c15e84d0e53d7fe1a0cb25">>
IdEmpty  == <<"X-Custom-ID", ":">>
IdExtra  == <<"X-Custom-ID", ":", gerar_custom_id, "x">>

\* Requests whose responses are built, serialized and parsed again.
RespInputs ==
    SeqInputs
    \cup { <<RequestLine(m, p), IdOk>> \o NoBody :
              m \in {"GET", "HEAD", "POST"}, p \in {"/info", "/time"} }
    \cup { <<RequestLine("GET", "/"), h>> \o NoBody :
              h \in {IdUpper, IdPrefix, IdEmpty, IdExtra} }
    \cup { <<RequestLine("GET", "/"), IdOk, IdBad>> \o NoBody,
           <<RequestLine("GET", "/"), IdBad, IdOk>> \o NoBody,
           <<RequestLine("HEAD", "/"), IdUpper>> \o NoBody,
           <<RequestLine("POST", "/hash"), IdOk>> \o BodyXyz,
           <<RequestLine("POST", "/echo"), IdOk, << >>, <<"xyz">>, <<"ação", "xyz">> >>,
           <<RequestLine("POST", "/echo"), IdOk, << >>, <<"xyz">>, << >>, <<"ç">> >>,
           <<RequestLine("POST", "/echo"), IdOk, HostLine>>,
           <<RequestLine("GET", "/"), <<"Host", ":", "localhost", ":", "8080">>, IdOk>> \o NoBody,
           <<RequestLine("GET", "/"), IdOk \o <<":", "x">> >> \o NoBody,
           <<RequestLine("GET", "/"), IdCaps, IdUpper>> \o NoBody,
           <<RequestLine("GET", "/"), <<"X-Custom-ID", gerar_custom_id>> >> \o NoBody }

Inputs(v) == IF v = "sequential" THEN SeqInputs ELSE ConcInputs

NoReq == [ method |-> None, path |-> None, version |-> None, body |-> << >>, has_cid |-> FALSE,
           valid |-> FALSE, custom_id_valid |-> FALSE ]

\* ------------------------------------------------------------- state
VARIABLES
    variant,             \* which server class runs: "sequential" | "concurrent"
    running,             \* self.running
    server_socket,       \* the listening socket: "open" | "closed"
    executor_shutdown,   \* the executor's _shutdown flag
    main_pc,             \* the main thread's place in _run_server_loop
    main_conn,           \* client_socket of the loop's current iteration
    main_tmp,            \* value the main thread read inside "+= 1"
    sig,                 \* the signal handler: "none" | "stopping" | "returned"
    stats_lock,          \* holder of self.stats_lock, or Free
    requests_processed, errors_count, active_connections,
    requests_served,     \* the handlers singleton's counter
    queue,               \* the executor's work queue
    pc,                  \* per connection: place of its task
    req, resp,           \* per connection: parsed request, response status
    tmp,                 \* per connection: value read inside "+= 1"
    sock,                \* per connection: client socket "none" | "open" | "closed"
    cbreg,               \* per connection: done-callback registered
    wire,                \* per connection: outcome of sendall, until the close
    n_disp,              \* history: calls of process_request
    n_proc, n_err, n_inc, n_dec,  \* history: increments and decrements applied
    stream,              \* _receive_request: bytes the peer has yet to deliver
    peer_end,            \* the peer after its last byte: "close" | "silent"
    request_data,        \* _receive_request: the bytes accumulated
    body_received,       \* _receive_request: body_received
    rx_pc,               \* _receive_request: "off" | "head" | "body", then how
                         \* it returned: "framed" | "eof" | "timeout"
    raw,                 \* HTTPRequest.raw_request of the request being answered
    response,            \* the HTTPResponse built for it
    out,                 \* HTTPResponse.to_bytes() of it
    reparsed,            \* HTTPRequest(out): the serialized response parsed
    ws_pc,               \* "off" | "parse" | "built" | "serialized" | "reparsed"
    requests,            \* PerformanceMetrics.requests
    test_start_time, test_end_time,   \* PerformanceMetrics: the two marks
    clock,               \* time.time()
    end_marked,          \* history: end_test has been called
    metrics,             \* what calculate_metrics returned or raised
    m_pc                 \* "off" | "recording" | "calculated"

vars == << variant, running, server_socket, executor_shutdown, main_pc, main_conn,
           main_tmp, sig, stats_lock, requests_processed, errors_count,
           active_connections, requests_served, queue, pc, req, resp, tmp, sock,
           cbreg, wire, n_disp, n_proc, n_err, n_inc, n_dec,
           stream, peer_end, request_data, body_received, rx_pc,
           raw, response, out, reparsed, ws_pc,
           requests, test_start_time, test_end_time, clock, end_marked,
           metrics, m_pc >>

serverVars == << running, server_socket, executor_shutdown, sig >>
mainVars   == << main_pc, main_conn, main_tmp >>
statVars   == << requests_processed, errors_count, active_connections >>
histVars   == << n_disp, n_proc, n_err, n_inc, n_dec >>
connVars   == << pc, req, resp, tmp, sock, cbreg, wire >>
rxVars     == << stream, peer_end, request_data, body_received, rx_pc >>
respVars   == << raw, response, out, reparsed, ws_pc >>
metVars    == << requests, test_start_time, test_end_time, clock, end_marked,
                 metrics, m_pc >>

\* Places of a task while a worker thread is running it.
WorkerPcs == { "recv", "dispatch", "served_wr", "served_rd2", "served_wr2",
               "count_acq", "count_wr", "send", "close", "cb_acq", "cb_wr" }

RunningTasks == {c \in Conns : pc[c] \in WorkerPcs}

\* No response object is being followed.
NoResp == [ status_code |-> 0, status_message |-> << >>, headers |-> << >>,
            body |-> << >> ]

RespIdle ==
    /\ raw = << >>
    /\ response = NoResp
    /\ out = << >>
    /\ reparsed = NoReq
    /\ ws_pc = "off"

\* No PerformanceMetrics object is being followed.
\* A number n / d, as the quotients of the statistics module give it.
Quot(n, d) == [num |-> n, den |-> d]

NoMetrics == [ kind |-> "none", total_requests |-> 0, successful_requests |-> 0,
               max_latency |-> 0, latency_p95 |-> Quot(0, 1), latency_p99 |-> Quot(0, 1),
               test_duration |-> 0 ]
MetIdle ==
    /\ requests = << >>
    /\ test_start_time = 0
    /\ test_end_time = 0
    /\ clock = 0
    /\ end_marked = FALSE
    /\ metrics = NoMetrics
    /\ m_pc = "off"

\* The server part of the state while only responses or metrics are
\* looked at: nothing accepted, nothing counted.
ServerIdle ==
    /\ variant = "sequential"
    /\ running = TRUE
    /\ server_socket = "open"
    /\ executor_shutdown = FALSE
    /\ main_pc = "loop"
    /\ main_conn = 0
    /\ main_tmp = 0
    /\ sig = "none"
    /\ stats_lock = Free
    /\ requests_processed = 0
    /\ errors_count = 0
    /\ active_connections = 0
    /\ requests_served = 0
    /\ queue = << >>
    /\ pc = [c \in Conns |-> "new"]
    /\ req = [c \in Conns |-> NoReq]
    /\ resp = [c \in Conns |-> 0]
    /\ tmp = [c \in Conns |-> 0]
    /\ sock = [c \in Conns |-> "none"]
    /\ cbreg = [c \in Conns |-> FALSE]
    /\ wire = [c \in Conns |-> "none"]
    /\ n_disp = 0
    /\ n_proc = 0 /\ n_err = 0 /\ n_inc = 0 /\ n_dec = 0
    /\ stream = << >>
    /\ peer_end = "close"
    /\ request_data = << >>
    /\ body_received = 0
    /\ rx_pc = "off"

Init ==
    /\ variant \in {"sequential", "concurrent"}
    /\ running = TRUE
    /\ server_socket = "open"
    /\ executor_shutdown = FALSE
    /\ main_pc = "loop"
    /\ main_conn = 0
    /\ main_tmp = 0
    /\ sig = "none"
    /\ stats_lock = Free
    /\ requests_processed = 0
    /\ errors_count = 0
    /\ active_connections = 0
    /\ requests_served = 0
    /\ queue = << >>
    /\ pc = [c \in Conns |-> "new"]
    /\ req = [c \in Conns |-> NoReq]
    /\ resp = [c \in Conns |-> 0]
    /\ tmp = [c \in Conns |-> 0]
    /\ sock = [c \in Conns |-> "none"]
    /\ cbreg = [c \in Conns |-> FALSE]
    /\ wire = [c \in Conns |-> "none"]
    /\ n_disp = 0
    /\ n_proc = 0 /\ n_err = 0 /\ n_inc = 0 /\ n_dec = 0
    /\ stream = << >>
    /\ peer_end = "close"
    /\ request_data = << >>
    /\ body_received = 0
    /\ rx_pc = "off"
    /\ RespIdle
    /\ MetIdle

\* The main thread executes the loop only while no signal handler runs on it.
MainRuns == sig # "stopping"

\* The next connection accept() returns.
NextConn == CHOOSE c \in Conns : pc[c] = "new" /\ \A d \in Conns : pc[d] = "new" => c <= d

\* Variant: the counters updated without taking the lock.
CanAcquire_NoLock(t) == TRUE

\* "with self.stats_lock:" may enter.
CanAcquire(t) == stats_lock = Free

\* Variant: the done-callback leaves the counter as it is.
Decremented_Stuck(a) == a

\* max(0, self.active_connections - 1)
Decremented(a) == IF a - 1 > 0 THEN a - 1 ELSE 0

\* --------------------------------------------- signal handler: stop()
\* SequentialWebServer.stop: running = False; server_socket.close().
SeqStop ==
    /\ variant = "sequential"
    /\ sig = "none"
    /\ running' = FALSE
    /\ server_socket' = "closed"
    /\ sig' = "returned"
    /\ UNCHANGED << variant, respVars, metVars, rxVars, executor_shutdown, mainVars, stats_lock, statVars,
                    requests_served, queue, connVars, histVars >>

\* ConcurrentWebServer.stop, first half: running = False, and
\* executor.shutdown sets its flag before it waits for the workers.
ConcStop ==
    /\ variant = "concurrent"
    /\ sig = "none"
    /\ running' = FALSE
    /\ executor_shutdown' = TRUE
    /\ sig' = "stopping"
    /\ UNCHANGED << variant, respVars, metVars, rxVars, server_socket, mainVars, stats_lock, statVars,
                    requests_served, queue, connVars, histVars >>

\* Variant: stop() closes the listening socket without waiting for the pool
\* (shutdown(wait=False)).
ConcStopJoined_NoWait ==
    /\ variant = "concurrent"
    /\ sig = "stopping"
    /\ server_socket' = "closed"
    /\ sig' = "returned"
    /\ UNCHANGED << variant, respVars, metVars, rxVars, running, executor_shutdown, mainVars, stats_lock,
                    statVars, requests_served, queue, connVars, histVars >>

\* ConcurrentWebServer.stop, second half: shutdown(wait=True) returns once
\* the queue is empty and every worker has ended; server_socket.close().
ConcStopJoined ==
    /\ variant = "concurrent"
    /\ sig = "stopping"
    /\ queue = << >>
    /\ RunningTasks = {}
    /\ server_socket' = "closed"
    /\ sig' = "returned"
    /\ UNCHANGED << variant, respVars, metVars, rxVars, running, executor_shutdown, mainVars, stats_lock,
                    statVars, requests_served, queue, connVars, histVars >>

\* ------------------------------------- sequential _run_server_loop
\* "while self.running:"
SeqLoopCheck ==
    /\ variant = "sequential"
    /\ MainRuns
    /\ main_pc = "loop"
    /\ main_pc' = IF running THEN "accept" ELSE "exited"
    /\ UNCHANGED << variant, respVars, metVars, rxVars, serverVars, main_conn, main_tmp, stats_lock, statVars,
                    requests_served, queue, connVars, histVars >>

\* Variant: the loop accepts the next connection without waiting for the
\* one it is handling.
SeqAccept_Eager ==
    /\ variant = "sequential"
    /\ MainRuns
    /\ main_pc \in {"accept", "handle"}
    /\ server_socket = "open"
    /\ \E c \in Conns : pc[c] = "new"
    /\ main_conn' = NextConn
    /\ main_pc' = "handle"
    /\ pc' = [pc EXCEPT ![NextConn] = "recv"]
    /\ sock' = [sock EXCEPT ![NextConn] = "open"]
    /\ UNCHANGED << variant, respVars, metVars, rxVars, serverVars, main_tmp, stats_lock, statVars,
                    requests_served, queue, req, resp, tmp, cbreg, wire, histVars >>

\* accept() returns a connection; _handle_client starts inline.
SeqAccept ==
    /\ variant = "sequential"
    /\ MainRuns
    /\ main_pc = "accept"
    /\ server_socket = "open"
    /\ \E c \in Conns : pc[c] = "new"
    /\ main_conn' = NextConn
    /\ main_pc' = "handle"
    /\ pc' = [pc EXCEPT ![NextConn] = "recv"]
    /\ sock' = [sock EXCEPT ![NextConn] = "open"]
    /\ UNCHANGED << variant, respVars, metVars, rxVars, serverVars, main_tmp, stats_lock, statVars,
                    requests_served, queue, req, resp, tmp, cbreg, wire, histVars >>

\* accept() on the closed listening socket raises OSError:
\* "except Exception: self.errors_count += 1".
SeqAcceptError ==
    /\ variant = "sequential"
    /\ MainRuns
    /\ main_pc = "accept"
    /\ server_socket = "closed"
    /\ errors_count' = errors_count + 1
    /\ n_err' = n_err + 1
    /\ main_pc' = "loop"
    /\ UNCHANGED << variant, respVars, metVars, rxVars, serverVars, main_conn, main_tmp, stats_lock,
                    requests_processed, active_connections, requests_served, queue,
                    connVars, n_disp, n_proc, n_inc, n_dec >>

\* ------------------------------------- concurrent _run_server_loop
ConcLoopCheck ==
    /\ variant = "concurrent"
    /\ MainRuns
    /\ main_pc = "loop"
    /\ main_pc' = IF running THEN "accept" ELSE "exited"
    /\ UNCHANGED << variant, respVars, metVars, rxVars, serverVars, main_conn, main_tmp, stats_lock, statVars,
                    requests_served, queue, connVars, histVars >>

\* accept() times out after 1.0 s: "except socket.timeout: continue".
ConcAcceptTimeout ==
    /\ variant = "concurrent"
    /\ MainRuns
    /\ main_pc = "accept"
    /\ server_socket = "open"
    /\ main_pc' = "loop"
    /\ UNCHANGED << variant, respVars, metVars, rxVars, serverVars, main_conn, main_tmp, stats_lock, statVars,
                    requests_served, queue, connVars, histVars >>

ConcAccept ==
    /\ variant = "concurrent"
    /\ MainRuns
    /\ main_pc = "accept"
    /\ server_socket = "open"
    /\ \E c \in Conns : pc[c] = "new"
    /\ main_conn' = NextConn
    /\ main_pc' = "act_acq"
    /\ pc' = [pc EXCEPT ![NextConn] = "accepted"]
    /\ sock' = [sock EXCEPT ![NextConn] = "open"]
    /\ UNCHANGED << variant, respVars, metVars, rxVars, serverVars, main_tmp, stats_lock, statVars,
                    requests_served, queue, req, resp, tmp, cbreg, wire, histVars >>

\* settimeout()/accept() on the closed listening socket raises OSError.
ConcAcceptError ==
    /\ variant = "concurrent"
    /\ MainRuns
    /\ main_pc = "accept"
    /\ server_socket = "closed"
    /\ main_pc' = "err_acq"
    /\ UNCHANGED << variant, respVars, metVars, rxVars, serverVars, main_conn, main_tmp, stats_lock, statVars,
                    requests_served, queue, connVars, histVars >>

\* "with self.stats_lock:" entered, and the read of "+= 1".
ConcActiveAcquire ==
    /\ variant = "concurrent"
    /\ MainRuns
    /\ main_pc = "act_acq"
    /\ CanAcquire(Main)
    /\ stats_lock' = Main
    /\ main_tmp' = active_connections
    /\ main_pc' = "act_wr"
    /\ UNCHANGED << variant, respVars, metVars, rxVars, serverVars, main_conn, statVars, requests_served,
                    queue, connVars, histVars >>

\* The write of "self.active_connections += 1", and the lock released.
ConcActiveWrite ==
    /\ variant = "concurrent"
    /\ MainRuns
    /\ main_pc = "act_wr"
    /\ active_connections' = main_tmp + 1
    /\ n_inc' = n_inc + 1
    /\ stats_lock' = Free
    /\ main_tmp' = 0
    /\ main_pc' = "submit"
    /\ UNCHANGED << variant, respVars, metVars, rxVars, serverVars, main_conn, requests_processed,
                    errors_count, requests_served, queue, connVars, n_disp,
                    n_proc, n_err, n_dec >>

\* executor.submit: queues the task, or raises RuntimeError once the
\* executor is shut down; the loop's "except Exception" then counts an
\* error and nothing closes client_socket.
ConcSubmit ==
    /\ variant = "concurrent"
    /\ MainRuns
    /\ main_pc = "submit"
    /\ IF executor_shutdown
       THEN /\ main_pc' = "err_acq"
            /\ main_conn' = 0
            /\ UNCHANGED << queue, pc >>
       ELSE /\ queue' = Append(queue, main_conn)
            /\ pc' = [pc EXCEPT ![main_conn] = "queued"]
            /\ main_pc' = "add_cb"
            /\ UNCHANGED main_conn
    /\ UNCHANGED << variant, respVars, metVars, rxVars, serverVars, main_tmp, stats_lock, statVars,
                    requests_served, req, resp, tmp, sock, cbreg, wire, histVars >>

\* future.add_done_callback: registers the callback, or runs it at once
\* on the main thread when the future is already finished.
ConcAddCallback ==
    /\ variant = "concurrent"
    /\ MainRuns
    /\ main_pc = "add_cb"
    /\ IF pc[main_conn] = "finished"
       THEN /\ main_pc' = "cb_acq"
            /\ UNCHANGED << cbreg, main_conn >>
       ELSE /\ cbreg' = [cbreg EXCEPT ![main_conn] = TRUE]
            /\ main_pc' = "loop"
            /\ main_conn' = 0
    /\ UNCHANGED << variant, respVars, metVars, rxVars, serverVars, main_tmp, stats_lock, statVars,
                    requests_served, queue, pc, req, resp, tmp, sock, wire, histVars >>

\* _decrement_active_connections on the main thread.
ConcMainCallbackAcquire ==
    /\ variant = "concurrent"
    /\ MainRuns
    /\ main_pc = "cb_acq"
    /\ CanAcquire(Main)
    /\ stats_lock' = Main
    /\ main_tmp' = active_connections
    /\ main_pc' = "cb_wr"
    /\ UNCHANGED << variant, respVars, metVars, rxVars, serverVars, main_conn, statVars, requests_served,
                    queue, connVars, histVars >>

ConcMainCallbackWrite ==
    /\ variant = "concurrent"
    /\ MainRuns
    /\ main_pc = "cb_wr"
    /\ active_connections' = Decremented(main_tmp)
    /\ n_dec' = n_dec + 1
    /\ stats_lock' = Free
    /\ pc' = [pc EXCEPT ![main_conn] = "done"]
    /\ main_pc' = "loop"
    /\ main_conn' = 0
    /\ main_tmp' = 0
    /\ UNCHANGED << variant, respVars, metVars, rxVars, serverVars, requests_processed,
                    errors_count, requests_served, queue, req, resp, tmp, sock,
                    cbreg, wire, n_disp, n_proc, n_err, n_inc >>

\* "except Exception: with self.stats_lock: self.errors_count += 1"
ConcErrorAcquire ==
    /\ variant = "concurrent"
    /\ MainRuns
    /\ main_pc = "err_acq"
    /\ CanAcquire(Main)
    /\ stats_lock' = Main
    /\ main_tmp' = errors_count
    /\ main_pc' = "err_wr"
    /\ UNCHANGED << variant, respVars, metVars, rxVars, serverVars, main_conn, statVars, requests_served,
                    queue, connVars, histVars >>

ConcErrorWrite ==
    /\ variant = "concurrent"
    /\ MainRuns
    /\ main_pc = "err_wr"
    /\ errors_count' = main_tmp + 1
    /\ n_err' = n_err + 1
    /\ stats_lock' = Free
    /\ main_pc' = "loop"
    /\ main_tmp' = 0
    /\ UNCHANGED << variant, respVars, metVars, rxVars, serverVars, main_conn, requests_processed,
                    active_connections, requests_served, queue, connVars,
                    n_disp, n_proc, n_inc, n_dec >>

\* ------------------------------------------------- _handle_client
\* The thread that runs connection c's _handle_client may take a step:
\* the main thread, inline, in the sequential server; a worker thread of
\* the pool in the concurrent one.
MayStep(c) ==
    IF variant = "sequential"
    THEN MainRuns /\ main_pc = "handle" /\ main_conn = c
    ELSE TRUE

\* Variant: a pool of one thread.
WorkerStart_Single(c) ==
    /\ variant = "concurrent"
    /\ queue # << >>
    /\ Head(queue) = c
    /\ Cardinality(RunningTasks) < 1
    /\ queue' = Tail(queue)
    /\ pc' = [pc EXCEPT ![c] = "recv"]
    /\ UNCHANGED << variant, respVars, metVars, rxVars, serverVars, mainVars, stats_lock, statVars,
                    requests_served, req, resp, tmp, sock, cbreg, wire, histVars >>

\* Variant: a thread is started for every queued task, whatever the
\* number of tasks already running.
WorkerStart_Unbounded(c) ==
    /\ variant = "concurrent"
    /\ queue # << >>
    /\ Head(queue) = c
    /\ queue' = Tail(queue)
    /\ pc' = [pc EXCEPT ![c] = "recv"]
    /\ UNCHANGED << variant, respVars, metVars, rxVars, serverVars, mainVars, stats_lock, statVars,
                    requests_served, req, resp, tmp, sock, cbreg, wire, histVars >>

\* A worker thread takes the oldest queued task; at most max_workers
\* threads exist.
WorkerStart(c) ==
    /\ variant = "concurrent"
    /\ queue # << >>
    /\ Head(queue) = c
    /\ Cardinality(RunningTasks) < max_workers
    /\ queue' = Tail(queue)
    /\ pc' = [pc EXCEPT ![c] = "recv"]
    /\ UNCHANGED << variant, respVars, metVars, rxVars, serverVars, mainVars, stats_lock, statVars,
                    requests_served, req, resp, tmp, sock, cbreg, wire, histVars >>

\* Variant: the request is handed to the handlers without the is_valid()
\* test.
Receive_NoCheck(c, data) ==
    /\ pc[c] = "recv"
    /\ MayStep(c)
    /\ IF data = NoData
       THEN /\ pc' = [pc EXCEPT ![c] = "close"]
            /\ UNCHANGED << req, resp >>
       ELSE /\ req' = [req EXCEPT ![c] = ParseRequest(data)]
            /\ pc' = [pc EXCEPT ![c] = "dispatch"]
            /\ UNCHANGED resp
    /\ UNCHANGED << variant, respVars, metVars, rxVars, serverVars, mainVars, stats_lock, statVars,
                    requests_served, queue, tmp, sock, cbreg, wire, histVars >>

\* Variant: a rejected request is counted as an error of the server.
Receive_CountsReject(c, data) ==
    /\ pc[c] = "recv"
    /\ MayStep(c)
    /\ IF data = NoData
       THEN /\ pc' = [pc EXCEPT ![c] = "close"]
            /\ UNCHANGED << req, resp, errors_count >>
       ELSE /\ req' = [req EXCEPT ![c] = ParseRequest(data)]
            /\ IF is_valid(ParseRequest(data))
               THEN /\ pc' = [pc EXCEPT ![c] = "dispatch"]
                    /\ UNCHANGED << resp, errors_count >>
               ELSE /\ pc' = [pc EXCEPT ![c] = "send"]
                    /\ resp' = [resp EXCEPT ![c] = RejectStatus(ParseRequest(data))]
                    /\ errors_count' = errors_count + 1
    /\ UNCHANGED << variant, respVars, metVars, rxVars, serverVars, mainVars, stats_lock,
                    requests_processed, active_connections,
                    requests_served, queue, tmp, sock, cbreg, wire, histVars >>

\* _receive_request returns (a receive timeout is swallowed inside it and
\* what was read so far is returned), then HTTPRequest(request_data) and
\* the is_valid() branches.
Receive(c, data) ==
    /\ pc[c] = "recv"
    /\ MayStep(c)
    /\ IF data = NoData
       THEN /\ pc' = [pc EXCEPT ![c] = "close"]
            /\ UNCHANGED << req, resp >>
       ELSE /\ req' = [req EXCEPT ![c] = ParseRequest(data)]
            /\ IF is_valid(ParseRequest(data))
               THEN /\ pc' = [pc EXCEPT ![c] = "dispatch"]
                    /\ UNCHANGED resp
               ELSE /\ pc' = [pc EXCEPT ![c] = "send"]
                    /\ resp' = [resp EXCEPT ![c] = RejectStatus(ParseRequest(data))]
    /\ UNCHANGED << variant, respVars, metVars, rxVars, serverVars, mainVars, stats_lock, statVars,
                    requests_served, queue, tmp, sock, cbreg, wire, histVars >>

\* ------------------------------------------- _receive_request, by step
\* chunk = client_socket.recv(1024) in the outer loop returns the next k
\* units; then the test for the header terminator and, when it is there,
\* for the declared Content-Length.
RecvHead(c, k) ==
    /\ pc[c] = "recv"
    /\ MayStep(c)
    /\ rx_pc = "head"
    /\ k \in 1..Len(stream)
    /\ LET data == request_data \o SubSeq(stream, 1, k)
       IN /\ request_data' = data
          /\ stream' = SubSeq(stream, k + 1, Len(stream))
          /\ IF ~HasTerminator(data)
             THEN rx_pc' = "head" /\ UNCHANGED body_received
             ELSE IF ContentLength(data) > 0
             THEN /\ body_received' = BodyLen(data)
                  /\ rx_pc' = IF BodyPending(BodyLen(data), ContentLength(data))
                              THEN "body" ELSE "framed"
             ELSE rx_pc' = "framed" /\ UNCHANGED body_received
    /\ UNCHANGED << variant, respVars, metVars, peer_end, serverVars, mainVars, stats_lock, statVars,
                    requests_served, queue, connVars, histVars >>

\* chunk = client_socket.recv(1024) in the body loop returns the next k
\* units.
RecvBody(c, k) ==
    /\ pc[c] = "recv"
    /\ MayStep(c)
    /\ rx_pc = "body"
    /\ k \in 1..Len(stream)
    /\ request_data' = request_data \o SubSeq(stream, 1, k)
    /\ stream' = SubSeq(stream, k + 1, Len(stream))
    /\ body_received' = body_received + ByteLen(SubSeq(stream, 1, k))
    /\ rx_pc' = IF BodyPending(body_received + ByteLen(SubSeq(stream, 1, k)),
                               ContentLength(request_data))
                THEN "body" ELSE "framed"
    /\ UNCHANGED << variant, respVars, metVars, peer_end, serverVars, mainVars, stats_lock, statVars,
                    requests_served, queue, connVars, histVars >>

\* recv() returns b"": the peer has closed; "if not chunk: break".
RecvEof(c) ==
    /\ pc[c] = "recv"
    /\ MayStep(c)
    /\ rx_pc \in {"head", "body"}
    /\ stream = << >>
    /\ peer_end = "close"
    /\ rx_pc' = "eof"
    /\ UNCHANGED << variant, respVars, metVars, stream, peer_end, request_data, body_received,
                    serverVars, mainVars, stats_lock, statVars, requests_served,
                    queue, connVars, histVars >>

\* recv() raises socket.timeout after 5.0 s without a byte:
\* "except socket.timeout: pass".
RecvTimeout(c) ==
    /\ pc[c] = "recv"
    /\ MayStep(c)
    /\ rx_pc \in {"head", "body"}
    /\ stream = << >>
    /\ peer_end = "silent"
    /\ rx_pc' = "timeout"
    /\ UNCHANGED << variant, respVars, metVars, stream, peer_end, request_data, body_received,
                    serverVars, mainVars, stats_lock, statVars, requests_served,
                    queue, connVars, histVars >>

\* _receive_request returns what it accumulated, and _handle_client goes on
\* with it.
ReceiveReturned(c) ==
    /\ rx_pc \in {"framed", "eof", "timeout"}
    /\ Receive(c, ReturnedText(request_data))

\* process_request is entered (on the first read); the read of
\* "self.requests_served += 1" in a handler.
ServedRead(c) ==
    /\ pc[c] \in {"dispatch", "served_rd2"}
    /\ MayStep(c)
    /\ tmp' = [tmp EXCEPT ![c] = requests_served]
    /\ pc' = [pc EXCEPT ![c] = IF pc[c] = "dispatch" THEN "served_wr" ELSE "served_wr2"]
    /\ n_disp' = IF pc[c] = "dispatch" THEN n_disp + 1 ELSE n_disp
    /\ UNCHANGED << variant, respVars, metVars, rxVars, serverVars, mainVars, stats_lock, statVars,
                    requests_served, queue, req, resp, sock, cbreg, wire,
                    n_proc, n_err, n_inc, n_dec >>

\* The write of "self.requests_served += 1"; after the last one the
\* handler builds the response and process_request returns it.
ServedWrite(c) ==
    /\ pc[c] \in {"served_wr", "served_wr2"}
    /\ MayStep(c)
    /\ requests_served' = tmp[c] + 1
    /\ tmp' = [tmp EXCEPT ![c] = 0]
    /\ IF pc[c] = "served_wr" /\ ServedIncrements(req[c]) = 2
       THEN /\ pc' = [pc EXCEPT ![c] = "served_rd2"]
            /\ UNCHANGED resp
       ELSE /\ pc' = [pc EXCEPT ![c] = "count_acq"]
            /\ resp' = [resp EXCEPT ![c] = process_request(req[c])]
    /\ UNCHANGED << variant, respVars, metVars, rxVars, serverVars, mainVars, stats_lock, statVars, queue,
                    req, sock, cbreg, wire, histVars >>

\* Variant: the sequential server forgets to count the request.
SeqCount_Skip(c) ==
    /\ variant = "sequential"
    /\ pc[c] = "count_acq"
    /\ MayStep(c)
    /\ pc' = [pc EXCEPT ![c] = "send"]
    /\ UNCHANGED << variant, respVars, metVars, rxVars, serverVars, mainVars, stats_lock, statVars,
                    requests_served, queue, req, resp, tmp, sock, cbreg, wire,
                    histVars >>

\* Sequential: "self.requests_processed += 1" (one thread, no lock).
SeqCount(c) ==
    /\ variant = "sequential"
    /\ pc[c] = "count_acq"
    /\ MayStep(c)
    /\ requests_processed' = requests_processed + 1
    /\ n_proc' = n_proc + 1
    /\ pc' = [pc EXCEPT ![c] = "send"]
    /\ UNCHANGED << variant, respVars, metVars, rxVars, serverVars, mainVars, stats_lock, errors_count,
                    active_connections, requests_served, queue, req, resp, tmp,
                    sock, cbreg, wire, n_disp, n_err, n_inc, n_dec >>

\* Concurrent: "with self.stats_lock:" entered, and the read of "+= 1".
ConcCountAcquire(c) ==
    /\ variant = "concurrent"
    /\ pc[c] = "count_acq"
    /\ CanAcquire(Worker(c))
    /\ stats_lock' = Worker(c)
    /\ tmp' = [tmp EXCEPT ![c] = requests_processed]
    /\ pc' = [pc EXCEPT ![c] = "count_wr"]
    /\ UNCHANGED << variant, respVars, metVars, rxVars, serverVars, mainVars, statVars, requests_served,
                    queue, req, resp, sock, cbreg, wire, histVars >>

\* The write of "self.requests_processed += 1", and the lock released.
ConcCountWrite(c) ==
    /\ variant = "concurrent"
    /\ pc[c] = "count_wr"
    /\ requests_processed' = tmp[c] + 1
    /\ tmp' = [tmp EXCEPT ![c] = 0]
    /\ n_proc' = n_proc + 1
    /\ stats_lock' = Free
    /\ pc' = [pc EXCEPT ![c] = "send"]
    /\ UNCHANGED << variant, respVars, metVars, rxVars, serverVars, mainVars, errors_count, active_connections,
                    requests_served, queue, req, resp, sock, cbreg, wire,
                    n_disp, n_err, n_inc, n_dec >>

\* Variant: the response is built but never handed to sendall.
Send_Skipped(c, ok) ==
    /\ pc[c] = "send"
    /\ MayStep(c)
    /\ req' = [req EXCEPT ![c] = NoReq]
    /\ resp' = [resp EXCEPT ![c] = 0]
    /\ pc' = [pc EXCEPT ![c] = "close"]
    /\ UNCHANGED << variant, respVars, metVars, rxVars, serverVars, mainVars, stats_lock, statVars,
                    requests_served, queue, tmp, sock, cbreg, wire, histVars >>

\* _send_response: sendall succeeds, or fails and the failure is only
\* printed.
Send(c, ok) ==
    /\ pc[c] = "send"
    /\ MayStep(c)
    /\ wire' = [wire EXCEPT ![c] = IF ok THEN "sent" ELSE "failed"]
    /\ req' = [req EXCEPT ![c] = NoReq]
    /\ resp' = [resp EXCEPT ![c] = 0]
    /\ pc' = [pc EXCEPT ![c] = "close"]
    /\ UNCHANGED << variant, respVars, metVars, rxVars, serverVars, mainVars, stats_lock, statVars,
                    requests_served, queue, tmp, sock, cbreg, histVars >>

\* "finally: client_socket.close()", and _handle_client returns: to the
\* accept loop (sequential), or the future is set finished and the worker
\* goes on to the registered done-callback (concurrent).
Close(c) ==
    /\ pc[c] = "close"
    /\ MayStep(c)
    /\ sock' = [sock EXCEPT ![c] = "closed"]
    /\ wire' = [wire EXCEPT ![c] = "none"]
    /\ IF variant = "sequential"
       THEN /\ pc' = [pc EXCEPT ![c] = "done"]
            /\ main_pc' = "loop"
            /\ main_conn' = 0
       ELSE /\ pc' = [pc EXCEPT ![c] = IF cbreg[c] THEN "cb_acq" ELSE "finished"]
            /\ UNCHANGED << main_pc, main_conn >>
    /\ UNCHANGED << variant, respVars, metVars, rxVars, serverVars, main_tmp, stats_lock, statVars,
                    requests_served, queue, req, resp, tmp, cbreg, histVars >>

\* _decrement_active_connections on the worker thread.
ConcCallbackAcquire(c) ==
    /\ variant = "concurrent"
    /\ pc[c] = "cb_acq"
    /\ CanAcquire(Worker(c))
    /\ stats_lock' = Worker(c)
    /\ tmp' = [tmp EXCEPT ![c] = active_connections]
    /\ pc' = [pc EXCEPT ![c] = "cb_wr"]
    /\ UNCHANGED << variant, respVars, metVars, rxVars, serverVars, mainVars, statVars, requests_served,
                    queue, req, resp, sock, cbreg, wire, histVars >>

ConcCallbackWrite(c) ==
    /\ variant = "concurrent"
    /\ pc[c] = "cb_wr"
    /\ active_connections' = Decremented(tmp[c])
    /\ n_dec' = n_dec + 1
    /\ stats_lock' = Free
    /\ tmp' = [tmp EXCEPT ![c] = 0]
    /\ cbreg' = [cbreg EXCEPT ![c] = FALSE]
    /\ pc' = [pc EXCEPT ![c] = "done"]
    /\ UNCHANGED << variant, respVars, metVars, rxVars, serverVars, mainVars, requests_processed, errors_count,
                    requests_served, queue, req, resp, sock, wire,
                    n_disp, n_proc, n_err, n_inc >>

\* ---------------------------------------------------- specification
Next ==
    \/ SeqStop
    \/ ConcStop
    \/ ConcStopJoined
    \/ SeqLoopCheck
    \/ SeqAccept
    \/ SeqAcceptError
    \/ ConcLoopCheck
    \/ ConcAcceptTimeout
    \/ ConcAccept
    \/ ConcAcceptError
    \/ ConcActiveAcquire
    \/ ConcActiveWrite
    \/ ConcSubmit
    \/ ConcAddCallback
    \/ ConcMainCallbackAcquire
    \/ ConcMainCallbackWrite
    \/ ConcErrorAcquire
    \/ ConcErrorWrite
    \/ \E c \in Conns : WorkerStart(c)
    \/ \E c \in Conns : \E data \in {NoData} \cup Inputs(variant) : Receive(c, data)
    \/ \E c \in Conns : ServedRead(c)
    \/ \E c \in Conns : ServedWrite(c)
    \/ \E c \in Conns : SeqCount(c)
    \/ \E c \in Conns : ConcCountAcquire(c)
    \/ \E c \in Conns : ConcCountWrite(c)
    \/ \E c \in Conns : \E ok \in BOOLEAN : Send(c, ok)
    \/ \E c \in Conns : Close(c)
    \/ \E c \in Conns : ConcCallbackAcquire(c)
    \/ \E c \in Conns : ConcCallbackWrite(c)

Spec == Init /\ [][Next]_vars

\* Every thread that can run is scheduled: the interpreter switches threads,
\* and a blocked accept(), recv() or lock acquire returns when its event
\* arrives.
FairSpec == Spec /\ WF_vars(Next)

\* ------------------------------------------- scheduling, thread by thread
\* The steps of the main thread: the accept loop, and the return of
\* executor.shutdown(wait=True) inside stop().
MainStep ==
    \/ SeqLoopCheck \/ SeqAccept \/ SeqAcceptError
    \/ ConcLoopCheck \/ ConcAcceptTimeout \/ ConcAccept \/ ConcAcceptError
    \/ ConcActiveAcquire \/ ConcActiveWrite \/ ConcSubmit \/ ConcAddCallback
    \/ ConcMainCallbackAcquire \/ ConcMainCallbackWrite
    \/ ConcErrorAcquire \/ ConcErrorWrite
    \/ ConcStopJoined

\* _receive_request returns for connection c.
ReceiveStep(c) == \E data \in {NoData} \cup Inputs(variant) : Receive(c, data)

\* The steps of _handle_client for connection c after the receive, and of
\* the done-callback.
HandleStep(c) ==
    \/ ServedRead(c) \/ ServedWrite(c) \/ SeqCount(c)
    \/ ConcCountAcquire(c) \/ ConcCountWrite(c)
    \/ (\E ok \in BOOLEAN : Send(c, ok))
    \/ Close(c)
    \/ ConcCallbackAcquire(c) \/ ConcCallbackWrite(c)

\* Connections whose peer may go on for ever without completing its
\* request (bytes arriving more often than the 5 s receive timeout).
SlowPeers == {1}

\* Every thread is scheduled; the receive of a connection returns unless
\* its peer is a slow one.
LiveSpec ==
    /\ Spec
    /\ WF_vars(MainStep)
    /\ \A c \in Conns : WF_vars(WorkerStart(c) \/ HandleStep(c))
    /\ \A c \in Conns \ SlowPeers : WF_vars(ReceiveStep(c))

\* ------------------------ one connection, its receive taken step by step
\* The sequential server has accepted connection 1 and entered
\* _receive_request; the peer delivers some stream and then closes or
\* falls silent.
InitRecv ==
    /\ variant = "sequential"
    /\ running = TRUE
    /\ server_socket = "open"
    /\ executor_shutdown = FALSE
    /\ main_pc = "handle"
    /\ main_conn = 1
    /\ main_tmp = 0
    /\ sig = "none"
    /\ stats_lock = Free
    /\ requests_processed = 0
    /\ errors_count = 0
    /\ active_connections = 0
    /\ requests_served = 0
    /\ queue = << >>
    /\ pc = [c \in Conns |-> IF c = 1 THEN "recv" ELSE "new"]
    /\ req = [c \in Conns |-> NoReq]
    /\ resp = [c \in Conns |-> 0]
    /\ tmp = [c \in Conns |-> 0]
    /\ sock = [c \in Conns |-> IF c = 1 THEN "open" ELSE "none"]
    /\ cbreg = [c \in Conns |-> FALSE]
    /\ wire = [c \in Conns |-> "none"]
    /\ n_disp = 0
    /\ n_proc = 0 /\ n_err = 0 /\ n_inc = 0 /\ n_dec = 0
    /\ stream \in Streams
    /\ peer_end \in {"close", "silent"}
    /\ request_data = << >>
    /\ body_received = 0
    /\ rx_pc = "head"
    /\ RespIdle
    /\ MetIdle

NextRecv ==
    \/ \E c \in Conns : \E k \in 1..Len(stream) : RecvHead(c, k)
    \/ \E c \in Conns : \E k \in 1..Len(stream) : RecvBody(c, k)
    \/ \E c \in Conns : RecvEof(c)
    \/ \E c \in Conns : RecvTimeout(c)
    \/ \E c \in Conns : ReceiveReturned(c)
    \/ \E c \in Conns : ServedRead(c)
    \/ \E c \in Conns : ServedWrite(c)
    \/ \E c \in Conns : SeqCount(c)
    \/ \E c \in Conns : \E ok \in BOOLEAN : Send(c, ok)
    \/ \E c \in Conns : Close(c)

SpecRecv == InitRecv /\ [][NextRecv]_vars

\* ------------------------------------- building and writing a response
\* One request text goes through HTTPRequest, the handlers and to_bytes;
\* the bytes written are then read back with HTTPRequest.
idleVars == << variant, serverVars, mainVars, statVars, histVars, connVars, rxVars,
              stats_lock, requests_served, queue >>

BuildResponse ==
    /\ ws_pc = "raw"
    /\ response' = Respond(ParseRequest(raw))
    /\ ws_pc' = "built"
    /\ UNCHANGED << raw, out, reparsed, metVars, idleVars >>

Serialize ==
    /\ ws_pc = "built"
    /\ out' = to_bytes(response)
    /\ ws_pc' = "serialized"
    /\ UNCHANGED << raw, response, reparsed, metVars, idleVars >>

Reparse ==
    /\ ws_pc = "serialized"
    /\ reparsed' = ParseRequest(SplitLines(Decode(out)))
    /\ ws_pc' = "reparsed"
    /\ UNCHANGED << raw, response, out, metVars, idleVars >>

InitResp ==
    /\ ServerIdle
    /\ MetIdle
    /\ raw \in RespInputs
    /\ response = NoResp
    /\ out = << >>
    /\ reparsed = NoReq
    /\ ws_pc = "raw"

NextResp == BuildResponse \/ Serialize \/ Reparse

SpecResp == InitResp /\ [][NextResp]_vars

\* ----------------------------------- one connection, sendall by bytes
\* _handle_client for one request text, with the two ways out of its try
\* block: the regular response, or an exception raised before the send
\* and answered by the except clause with a 500.  out is what has been
\* written to the socket.
SendInputs ==
    { <<RequestLine("GET", "/"), IdOk>> \o NoBody,
      <<RequestLine("GET", "/nope"), IdOk>> \o NoBody,
      <<RequestLine("GET", "/"), HostLine>> \o NoBody,
      <<RequestLine("HEAD", "/"), IdOk>> \o NoBody,
      <<RequestLine("POST", "/echo"), IdOk>> \o BodyXyz,
      << <<"GET", "/">>, IdOk, << >>, << >> >> }

sendIdleVars == << variant, serverVars, mainVars, requests_processed, active_connections,
                  histVars, connVars, rxVars, stats_lock, requests_served, queue,
                  reparsed, metVars >>

\* Variant: _send_response lets the exception of sendall through to
\* _handle_client.
AfterSendFailure_Propagates(at) == IF at = "send_regular" THEN "raise" ELSE "close"

\* Where _handle_client goes on after sendall raised: _send_response
\* catches the exception and prints it, and the except clause around the
\* second send passes; the next statement is the finally block.
AfterSendFailure(at) == "close"

\* The try block up to the send: the response is built, or a statement
\* before the send raises (settimeout on the socket, a print).
HandleRequest(raises) ==
    /\ ws_pc = "handle"
    /\ IF raises
       THEN ws_pc' = "raise" /\ UNCHANGED response
       ELSE /\ response' = Respond(ParseRequest(raw))
            /\ ws_pc' = "send_regular"
    /\ UNCHANGED << raw, out, errors_count, sendIdleVars >>

\* "except Exception": errors_count += 1, and the 500 response is made.
ExceptClause ==
    /\ ws_pc = "raise"
    /\ errors_count' = errors_count + 1
    /\ response' = create_error_response(500, <<"ação", "ç">>)
    /\ ws_pc' = "send_500"
    /\ UNCHANGED << raw, out, sendIdleVars >>

\* _send_response: sendall writes the first k units of to_bytes() and
\* returns when that is all of them, or raises after them.
SendAll(k) ==
    /\ ws_pc \in {"send_regular", "send_500"}
    /\ k \in 0..Len(to_bytes(response))
    /\ out' = out \o SubSeq(to_bytes(response), 1, k)
    /\ ws_pc' = IF k = Len(to_bytes(response)) THEN "close" ELSE AfterSendFailure(ws_pc)
    /\ UNCHANGED << raw, response, errors_count, sendIdleVars >>

\* "finally: client_socket.close()"
CloseSocket ==
    /\ ws_pc = "close"
    /\ ws_pc' = "closed"
    /\ UNCHANGED << raw, response, out, errors_count, sendIdleVars >>

InitSend ==
    /\ ServerIdle
    /\ MetIdle
    /\ raw \in SendInputs
    /\ response = NoResp
    /\ out = << >>
    /\ reparsed = NoReq
    /\ ws_pc = "handle"

NextSend ==
    \/ \E raises \in BOOLEAN : HandleRequest(raises)
    \/ ExceptClause
    \/ \E k \in 0..Len(to_bytes(response)) : SendAll(k)
    \/ CloseSocket

SpecSend == InitSend /\ [][NextSend]_vars


\* ------------------------------------------------------- properties
Accepted == {c \in Conns : pc[c] # "new"}
OpenSockets == {c \in Conns : sock[c] = "open"}

\* Places of a task inside process_request or between its return and the
\* counter update that follows it.
UncountedPcs == {"served_wr", "served_rd2", "served_wr2", "count_acq", "count_wr"}

\* Places of a task between the read and the write of "requests_served += 1".
ServedRmwPcs == {"served_wr", "served_wr2"}

\* Places of a task that holds a parsed request.
RequestPcs == {"dispatch", "send"} \cup UncountedPcs

\* C1: every connection accept() returned has its client socket closed in
\* the end: once no thread can take a step any more, no accepted socket is
\* still open.
C1_AcceptedSocketsClosed == (~ENABLED Next) => OpenSockets = {}

\* C2: concurrent server, N <= max_workers connections, each carrying a
\* valid authenticated request: once all of them have finished (the done
\* callbacks included) active_connections is 0 and requests_processed is N.
C2_AllFinishedCounters ==
    ( /\ variant = "concurrent"
      /\ Cardinality(Accepted) <= max_workers
      /\ \A c \in Accepted : pc[c] = "done"
      /\ n_disp = Cardinality(Accepted) )
    => /\ active_connections = 0
       /\ requests_processed = Cardinality(Accepted)

C2_Witness ==
    /\ variant = "concurrent"
    /\ Cardinality(Accepted) = max_workers
    /\ \A c \in Accepted : pc[c] = "done"
    /\ n_disp = max_workers

\* C3: concurrent server: a thread about to write requests_processed,
\* errors_count or active_connections holds stats_lock, and each counter
\* equals the increments minus the decrements applied to it.
C3_CountersUnderLock ==
    variant = "concurrent" =>
        /\ \A c \in Conns : pc[c] \in {"count_wr", "cb_wr"} => stats_lock = Worker(c)
        /\ main_pc \in {"act_wr", "cb_wr", "err_wr"} => stats_lock = Main
        /\ requests_processed = n_proc
        /\ errors_count = n_err
        /\ active_connections = n_inc - n_dec

C3_Witness ==
    /\ variant = "concurrent"
    /\ n_proc >= 1
    /\ n_dec >= 1
    /\ \E c, d \in Conns : /\ c # d
                           /\ pc[c] = "count_wr"
                           /\ pc[d] \in {"count_acq", "cb_acq"}

\* C4: concurrent server: no two workers are inside a read-modify-write of
\* the same shared variable at the same time.
C4_NoInterleavedSharedWrite ==
    variant = "concurrent" =>
        \A c, d \in Conns :
            (c # d /\ pc[c] \in ServedRmwPcs) => pc[d] \notin ServedRmwPcs

\* C5: the boundary checks are ordered: structurally invalid -> 400 whatever
\* the identity header; else identity header missing or wrong -> 401; only a
\* valid and authenticated request is inside process_request.
C5_CheckOrder ==
    \A c \in Conns :
        /\ pc[c] \in RequestPcs =>
              IF ~req[c].valid
              THEN pc[c] = "send" /\ resp[c] = 400
              ELSE IF ~req[c].custom_id_valid
              THEN pc[c] = "send" /\ resp[c] = 401
              ELSE pc[c] = "send" => resp[c] = process_request(req[c])
        /\ pc[c] \in UncountedPcs \cup {"dispatch"} =>
              req[c].valid /\ req[c].custom_id_valid

C5_Witness ==
    \E c \in Conns : /\ pc[c] = "send"
                     /\ ~req[c].valid
                     /\ req[c].custom_id_valid
                     /\ resp[c] = 400

\* C6, as claimed: every non-empty request without the right X-Custom-ID is
\* answered 401, for every method and every path.
C6_Unauthenticated401 ==
    \A c \in Conns :
        (pc[c] = "send" /\ get_custom_id_status(req[c]) # "VALID") => resp[c] = 401

\* C6, amended: every structurally valid request (GET, POST or HEAD) whose
\* X-Custom-ID is missing or wrong is answered 401, for every path, and is
\* not handed to a handler.
C6_ValidUnauthenticated401 ==
    \A c \in Conns :
        (pc[c] \in RequestPcs /\ req[c].valid
            /\ get_custom_id_status(req[c]) \in {"MISSING", "INVALID"})
        => pc[c] = "send" /\ resp[c] = 401

C6_Witness ==
    \E c \in Conns : /\ pc[c] = "send"
                     /\ req[c].method = "POST"
                     /\ req[c].path = "/nope"
                     /\ get_custom_id_status(req[c]) = "INVALID"
                     /\ resp[c] = 401

\* C7: a structurally valid request with the right identity token is
\* answered 200, 400, 404 or 405, never 401.
C7_AuthenticatedStatus ==
    \A c \in Conns :
        (pc[c] = "send" /\ req[c].valid /\ get_custom_id_status(req[c]) = "VALID")
        => resp[c] \in {200, 400, 404, 405}

C7_Witness ==
    \E c \in Conns : /\ pc[c] = "send"
                     /\ req[c].valid
                     /\ get_custom_id_status(req[c]) = "VALID"
                     /\ req[c].method = "GET"
                     /\ resp[c] = 404

\* C8: requests_processed counts exactly the requests handed to
\* process_request: it equals the number of dispatches whose counter update
\* has been made, so a request that is not dispatched never changes it.
C8_ProcessedCountsDispatches ==
    requests_processed = n_disp - Cardinality({c \in Conns : pc[c] \in UncountedPcs})

C8_Witness ==
    /\ requests_processed = 1
    /\ n_disp = 1
    /\ Cardinality({c \in Conns : sock[c] = "closed"}) >= 2
    /\ \E c \in Conns : pc[c] = "send" /\ resp[c] = 401

\* C9: requests_served increases by exactly 1 per request dispatched through
\* process_request: whenever no handler is running it equals the number of
\* dispatches.
C9_ServedCountsDispatches ==
    (\A c \in Conns : pc[c] \notin ServedRmwPcs \cup {"served_rd2"})
    => requests_served = n_disp

\* C10: sequential server: at most one connection is open at any time, none
\* is open while the loop is at accept(), and connections are handled in
\* accept order.
C10_OneAtATime ==
    variant = "sequential" =>
        /\ Cardinality(OpenSockets) <= 1
        /\ main_pc \in {"loop", "accept", "exited"} => OpenSockets = {}
        /\ \A c, d \in Conns : (c < d /\ pc[d] # "new") => pc[c] = "done"

C10_Witness ==
    /\ variant = "sequential"
    /\ \E c, d \in Conns : c < d /\ pc[c] = "done" /\ pc[d] = "send"

\* C11: concurrent server: when stop() has closed the listening socket,
\* every connection that was handed to the worker pool (queued or running)
\* has finished its task and its client socket is closed; only connections
\* never submitted to the pool may be left behind.
C11_StopDrainsPool ==
    (variant = "concurrent" /\ server_socket = "closed") =>
        \A c \in Conns :
            /\ pc[c] \in {"new", "accepted", "finished", "done"}
            /\ pc[c] \in {"finished", "done"} => sock[c] = "closed"

\* stop() has returned after two connections went through the pool, one of
\* them dispatched to a handler.
C11_Witness ==
    /\ variant = "concurrent"
    /\ server_socket = "closed"
    /\ sig = "returned"
    /\ Cardinality({c \in Conns : pc[c] \in {"finished", "done"} /\ sock[c] = "closed"}) >= 2
    /\ n_disp >= 1

\* C12: once a shutdown request has set running to false, the accept loop
\* of either server eventually exits.
C12_LoopExits == (~running) ~> (main_pc = "exited")

\* The same for the sequential server alone.
C12_SeqLoopExits == (variant = "sequential" /\ ~running) ~> (main_pc = "exited")

\* C13: a receive timeout before the request is fully framed sends the
\* connection to its close with no response written, whether or not some
\* bytes had been received.
C13_TimeoutNoResponse ==
    rx_pc = "timeout" =>
        \A c \in Conns : pc[c] \in {"new", "recv", "close", "done"} /\ wire[c] = "none"

\* C14: _receive_request returns through its framing test only when the
\* header terminator has been received and either no positive
\* Content-Length is declared or at least that many body bytes are there;
\* a read after the header terminator happens only while a positive
\* Content-Length is still unmet, so Content-Length 0 or none completes
\* without another read.
C14_FramedWhenComplete ==
    /\ rx_pc = "head" => ~HasTerminator(request_data)
    /\ rx_pc = "body" =>
          /\ HasTerminator(request_data)
          /\ ContentLength(request_data) > 0
          /\ BodyLen(request_data) < ContentLength(request_data)
    /\ rx_pc = "framed" =>
          /\ HasTerminator(request_data)
          /\ \/ ContentLength(request_data) <= 0
             \/ BodyLen(request_data) >= ContentLength(request_data)
    /\ (rx_pc \in {"body", "framed"} /\ ContentLength(request_data) > 0) =>
          body_received = BodyLen(request_data)

\* A request with Content-Length 3 was framed once its three body bytes
\* were there, and was parsed and found valid.
C14_Witness ==
    /\ rx_pc = "framed"
    /\ ContentLength(request_data) = 3
    /\ BodyLen(request_data) = 3
    /\ pc[1] = "dispatch"

\* C17: when the peer closes before the framing completes, what was
\* accumulated is parsed as the request and answered; when no byte was
\* received, no response is written, no counter changes and the connection
\* is closed.
C17_PeerClosedEarly ==
    rx_pc = "eof" =>
        /\ pc[1] \in RequestPcs => req[1] = ParseRequest(SplitLines(Decode(request_data)))
        /\ (Len(Decode(request_data)) > 0 /\ pc[1] = "close") => wire[1] # "none"
        /\ request_data = << >> =>
              /\ pc[1] \in {"recv", "close", "done"}
              /\ wire[1] = "none"
              /\ requests_processed = 0 /\ errors_count = 0 /\ requests_served = 0

\* The peer closed after a request line and one header, without the header
\* terminator; the request was answered.
C17_Witness ==
    /\ rx_pc = "eof"
    /\ Len(request_data) > 0
    /\ ~HasTerminator(request_data)
    /\ pc[1] = "close"
    /\ wire[1] = "sent"

\* C15: concurrent server: a connection whose send failed is counted in
\* errors_count: errors_count is at least the number of connections whose
\* response could not be written and that are about to be closed.
C15_IoFailureCounted ==
    variant = "concurrent" =>
        errors_count >= Cardinality({c \in Conns : wire[c] = "failed"})

C18_StatusTable ==
    \A c \in Conns :
        (pc[c] = "send" /\ req[c].valid /\ req[c].custom_id_valid) =>
            resp[c] =
                CASE req[c].method \in {"GET", "HEAD"} ->
                         IF req[c].path \in {"/", "/status", "/info", "/time"}
                         THEN 200 ELSE 404
                  [] req[c].method = "POST" ->
                         IF req[c].path \in {"/echo", "/hash"}
                         THEN (IF BodyTruthy(req[c].body) THEN 200 ELSE 400)
                         ELSE 405

\* POST /hash with the right token and an empty body, answered 400.
C18_Witness ==
    \E c \in Conns : /\ pc[c] = "send"
                     /\ req[c].valid /\ req[c].custom_id_valid
                     /\ req[c].method = "POST"
                     /\ req[c].path = "/hash"
                     /\ ~BodyTruthy(req[c].body)
                     /\ resp[c] = 400

\* C19: a request whose method is not GET, POST or HEAD is answered 405,
\* for every path.
C19_UnsupportedMethod405 ==
    \A c \in Conns :
        (pc[c] = "send" /\ req[c].method \notin {"GET", "POST", "HEAD", None})
        => resp[c] = 405

\* C20: a request whose request line has fewer than three tokens (method
\* None) or whose method is not GET, POST or HEAD is answered 400 and goes
\* straight to the send and the close: no handler is invoked for it.
C20_MalformedRejected ==
    \A c \in Conns :
        (pc[c] \in RequestPcs /\ req[c].method \notin {"GET", "POST", "HEAD"})
        => pc[c] = "send" /\ resp[c] = 400

\* A request line of two tokens, with the right identity header, is about
\* to be answered 400.
C20_Witness ==
    \E c \in Conns : /\ pc[c] = "send"
                     /\ req[c].method = None
                     /\ req[c].custom_id_valid
                     /\ resp[c] = 400

\* C30: concurrent server: active_connections is never negative and is
\* back at 0 whenever no connection is in flight, also after a shutdown:
\* once stop() has returned, the accept loop has exited and no task is
\* queued or running, the counter is 0.
C30_ActiveBackToZero ==
    /\ active_connections >= 0
    /\ ( /\ variant = "concurrent"
         /\ sig = "returned"
         /\ main_pc = "exited"
         /\ queue = << >>
         /\ RunningTasks = {} ) => active_connections = 0

\* ------------------------------------------------ response properties
\* Value of a header of a response, << >> when it is not set.
ResponseHeader(r, key) ==
    IF HeaderIndex(r.headers, key) = 0 THEN << >>
    ELSE r.headers[HeaderIndex(r.headers, key)].value

\* C21: POST /echo from an authenticated client answers 200 with the body
\* that was sent (the lines after the first empty line) when that body is
\* not empty, and 400 when it is empty.
C21_EchoBody ==
    LET r == ParseRequest(raw)
        sent == IF BlankPos(raw) = 0 THEN << >>
                ELSE Slice(raw, BlankPos(raw) + 1, Len(raw))
    IN (ws_pc # "raw" /\ is_valid(r) /\ r.method = "POST" /\ r.path = "/echo")
       => IF BodyTruthy(sent)
          THEN response.status_code = 200 /\ response.body = sent
          ELSE response.status_code = 400

\* C22 as stated: every response to a HEAD request has an empty body and
\* Content-Length 0, the status of GET on the four known paths and 404 on
\* any other path.
C22_EveryHeadResponse ==
    LET r == ParseRequest(raw)
    IN (ws_pc # "raw" /\ r.method = "HEAD")
       => /\ response.body = << >>
          /\ ResponseHeader(response, "Content-Length") = <<"0">>
          /\ r.path \in GetPaths
                => response.status_code = Respond([r EXCEPT !.method = "GET"]).status_code
          /\ r.path \notin GetPaths => response.status_code = 404

\* C22: every response to a well-formed HEAD request that carries the
\* token has an empty body and Content-Length 0; on /, /status, /info and
\* /time its status is the one GET gives for the path, elsewhere 404.
C22_HeadHandled ==
    LET r == ParseRequest(raw)
    IN (ws_pc # "raw" /\ r.method = "HEAD" /\ is_valid(r))
       => /\ response.body = << >>
          /\ ResponseHeader(response, "Content-Length") = <<"0">>
          /\ r.path \in GetPaths
                => response.status_code = Respond([r EXCEPT !.method = "GET"]).status_code
          /\ r.path \notin GetPaths => response.status_code = 404

C22_Witness ==
    /\ ws_pc = "built"
    /\ ParseRequest(raw).method = "HEAD"
    /\ is_valid(ParseRequest(raw))
    /\ ParseRequest(raw).path = "/status"
    /\ response.status_code = 200

\* C23: every response has the headers Server, Date, Connection: close
\* and Content-Type, and when its body is not empty its Content-Length is
\* the number of bytes of the body in UTF-8.
C23_Headers ==
    ws_pc # "raw"
    => /\ HeaderIndex(response.headers, "Server") # 0
       /\ HeaderIndex(response.headers, "Date") # 0
       /\ ResponseHeader(response, "Connection") = <<"close">>
       /\ HeaderIndex(response.headers, "Content-Type") # 0
       /\ BodyTruthy(response.body)
            => ResponseHeader(response, "Content-Length")
                 = <<ToString(TextLen(response.body, TRUE))>>

C23_Witness ==
    /\ ws_pc = "serialized"
    /\ BodyTruthy(response.body)
    /\ TextLen(response.body, TRUE) > TextLen(response.body, FALSE)
    /\ Len(response.body) > 1

\* C24: the bytes of every response contain the header terminator
\* CRLF CRLF, also when the body is empty.
C24_TerminatorAlways ==
    ws_pc \in {"serialized", "reparsed"} => HasTerminator(out)

\* C25 as stated: parsing the bytes of a response as a request gives the
\* HTTP version as method, the status code as path and the status message
\* as version.
C25_RoundTrip ==
    ws_pc = "reparsed"
    => /\ reparsed.method = "HTTP/1.1"
       /\ reparsed.path = ToString(response.status_code)
       /\ <<reparsed.version>> = response.status_message

\* C25: parsing the bytes of a response as a request gives the HTTP
\* version as method, the status code as path and the first word of the
\* status message as version.
C25_RoundTripFirstWord ==
    ws_pc = "reparsed"
    => /\ reparsed.method = "HTTP/1.1"
       /\ reparsed.path = ToString(response.status_code)
       /\ reparsed.version = response.status_message[1]

C25_Witness ==
    /\ ws_pc = "reparsed"
    /\ response.status_code = 404
    /\ reparsed.version = "Not"

\* C26: the token is the digest of the configured identity, and a
\* well-formed request passes the identity check exactly when the value
\* of its X-Custom-ID header is that token; any other value is answered
\* 401.
C26_ExactToken ==
    LET r == ParseRequest(raw)
        token == calcular_hash_aluno(MATRICULA, NOME_ALUNO, HASH_ALGORITHM)
        exact == HasHeader(raw, XCustomId) /\ HeaderGet(raw, XCustomId) = <<token>>
    IN /\ token # "ValueError"
       /\ gerar_custom_id = token
       /\ (ws_pc # "raw" /\ r.valid)
            => /\ r.custom_id_valid <=> exact
               /\ response.status_code = 401 <=> ~exact

C26_Witness ==
    /\ ws_pc = "built"
    /\ ParseRequest(raw).valid
    /\ HasHeader(raw, XCustomId)
    /\ HeaderGet(raw, XCustomId) = <<IdUpper[3]>>
    /\ response.status_code = 401

\* -------------------------------------------------- PerformanceMetrics
MaxSamples == 101
MaxClock == 3
\* add_request is followed one call at a time only on short lists.
MaxAdded == 2

\* The latencies of the recorded requests, in a unit that makes them
\* integers: r.response_time for r in self.requests.
Latencies(rs) == [i \in 1..Len(rs) |-> rs[i].response_time]

RECURSIVE Sum(_)
Sum(data) == IF Len(data) = 0 THEN 0 ELSE Head(data) + Sum(Tail(data))

\* max(data) on a non-empty list.
Max(data) == CHOOSE v \in {data[i] : i \in 1..Len(data)} :
                \A i \in 1..Len(data) : data[i] <= v

\* sorted(data)[k - 1]: the k-th smallest value.
Sorted(data, k) ==
    CHOOSE v \in {data[i] : i \in 1..Len(data)} :
        /\ Cardinality({i \in 1..Len(data) : data[i] < v}) < k
        /\ k <= Cardinality({i \in 1..Len(data) : data[i] <= v})

\* statistics.quantiles(data, n=n), method 'exclusive': the n - 1 cut
\* points, each as a quotient by n.
quantiles(data, n) ==
    [i \in 1..(n - 1) |->
        LET ld == Len(data)
            m  == ld + 1
            j0 == (i * m) \div n
            j  == IF j0 < 1 THEN 1 ELSE IF j0 > ld - 1 THEN ld - 1 ELSE j0
            delta == i * m - j * n
        IN Quot(Sorted(data, j) * (n - delta) + Sorted(data, j + 1) * delta, n)]

\* Variant: the cut point in the middle instead of the last one.
Percentile_Middle(latencies, n) ==
    IF Len(latencies) >= n THEN quantiles(latencies, n)[n \div 2]
    ELSE IF Len(latencies) > 0 THEN Quot(Max(latencies), 1) ELSE Quot(0, 1)

\* statistics.quantiles(latencies, n=n)[n - 2] if len(latencies) >= n
\* else max(latencies) if latencies else 0
Percentile(latencies, n) ==
    IF Len(latencies) >= n THEN quantiles(latencies, n)[n - 1]
    ELSE IF Len(latencies) > 0 THEN Quot(Max(latencies), 1) ELSE Quot(0, 1)

\* statistics.stdev raises StatisticsError for fewer than two values.
StdevRaises(data) == Len(data) < 2

\* The property test_duration read at time now.
test_duration_at(start, end, now) ==
    IF end > start THEN end - start ELSE now - start

test_duration == test_duration_at(test_start_time, test_end_time, clock)

\* Whether building the dict of calculate_metrics raises: every quotient
\* is behind the guard of its conditional expression, and the guard of
\* latency_cov lets statistics.stdev run on a single value.
CalculateRaises(rs) ==
    LET latencies == Latencies(rs)
        successful == SelectSeq(rs, LAMBDA r : r.success)
    IN \/ Len(latencies) > 1 /\ StdevRaises(latencies)              \* latency_std_*
       \/ Len(successful) > 1 /\ StdevRaises(Latencies(successful)) \* service_time_std
       \/ /\ Len(latencies) > 0 /\ Sum(latencies) > 0               \* latency_cov
          /\ StdevRaises(latencies)

\* calculate_metrics at time now: the dict it returns, or the exception.
calculate_metrics(rs, start, end, now) ==
    IF Len(rs) = 0
    THEN [NoMetrics EXCEPT !.kind = "empty"]
    ELSE IF CalculateRaises(rs)
    THEN [NoMetrics EXCEPT !.kind = "StatisticsError"]
    ELSE [ kind |-> "full",
           total_requests |-> Len(rs),
           successful_requests |-> Len(SelectSeq(rs, LAMBDA r : r.success)),
           max_latency |-> Max(Latencies(rs)),
           latency_p95 |-> Percentile(Latencies(rs), 20),
           latency_p99 |-> Percentile(Latencies(rs), 100),
           test_duration |-> test_duration_at(start, end, now) ]

\* Recorded samples: n requests whose latencies follow a shape.
Shapes == {"zero", "asc", "desc", "spike"}

Sample(shape, n, i) ==
    [ response_time |-> CASE shape = "zero" -> 0
                          [] shape = "asc" -> i
                          [] shape = "desc" -> n + 1 - i
                          [] shape = "spike" -> IF i = 1 THEN 1000 ELSE (i % 3),
      success |-> (shape = "asc" \/ i % 2 = 0) ]

SampleCounts == {n \in 0..MaxSamples : n <= 2 \/ n \in 19..21 \/ n >= 99}

SampleLists == { [i \in 1..n |-> Sample(sh, n, i)] : sh \in Shapes, n \in SampleCounts }

metIdleVars == << idleVars, respVars >>

\* time.time() returns a later value.
Tick ==
    /\ m_pc # "off"
    /\ clock < MaxClock
    /\ clock' = clock + 1
    /\ UNCHANGED << requests, test_start_time, test_end_time, end_marked, metrics, m_pc,
                    metIdleVars >>

start_test ==
    /\ m_pc = "new"
    /\ test_start_time' = clock
    /\ m_pc' = "started"
    /\ UNCHANGED << requests, test_end_time, clock, end_marked, metrics, metIdleVars >>

add_request(lat, ok) ==
    /\ m_pc = "started"
    /\ metrics.kind = "none"
    /\ Len(requests) < MaxAdded
    /\ requests' = Append(requests, [response_time |-> lat, success |-> ok])
    /\ UNCHANGED << test_start_time, test_end_time, clock, end_marked, metrics, m_pc,
                    metIdleVars >>

end_test ==
    /\ m_pc = "started"
    /\ test_end_time' = clock
    /\ end_marked' = TRUE
    /\ m_pc' = "ended"
    /\ UNCHANGED << requests, test_start_time, clock, metrics, metIdleVars >>

CalculateMetrics ==
    /\ m_pc \in {"started", "ended"}
    /\ metrics.kind = "none"
    /\ metrics' = calculate_metrics(requests, test_start_time, test_end_time, clock)
    /\ UNCHANGED << requests, test_start_time, test_end_time, clock, end_marked, m_pc,
                    metIdleVars >>

InitMetrics ==
    /\ ServerIdle
    /\ RespIdle
    /\ requests \in SampleLists
    /\ test_start_time = 0
    /\ test_end_time = 0
    /\ clock = 1
    /\ end_marked = FALSE
    /\ metrics = NoMetrics
    /\ m_pc = "new"

NextMetrics ==
    \/ Tick
    \/ start_test
    \/ \E lat \in {0, 7} : \E ok \in BOOLEAN : add_request(lat, ok)
    \/ end_test
    \/ CalculateMetrics

SpecMetrics == InitMetrics /\ [][NextMetrics]_vars

\* C27: calculate_metrics returns a dict and raises nothing, whatever
\* the number of samples and their latencies.
C27_NeverRaises == metrics.kind # "StatisticsError"

\* C28: in the metrics reported, the 95th percentile is the largest
\* latency when there are fewer than 20 samples and the last of the 19
\* cut points of the 20-way quantiles otherwise; the 99th percentile is
\* the largest latency when there are fewer than 100 samples and the last
\* of the 99 cut points of the 100-way quantiles otherwise.
C28_Percentiles ==
    metrics.kind = "full"
    => LET lat == Latencies(requests)
       IN /\ Len(lat) < 20 => metrics.latency_p95 = Quot(Max(lat), 1)
          /\ Len(lat) >= 20 => metrics.latency_p95 = quantiles(lat, 20)[19]
          /\ Len(lat) < 100 => metrics.latency_p99 = Quot(Max(lat), 1)
          /\ Len(lat) >= 100 => metrics.latency_p99 = quantiles(lat, 100)[99]

C28_Witness ==
    /\ metrics.kind = "full"
    /\ Len(requests) >= 100
    /\ metrics.latency_p99.num # metrics.max_latency * metrics.latency_p99.den
    /\ metrics.latency_p95.num * metrics.latency_p99.den
         # metrics.latency_p99.num * metrics.latency_p95.den

\* C29: once end_test has been called, test_duration is
\* max(0, end - start), whatever the clock reads.
C29_DurationFixed ==
    end_marked =>
        test_duration = (IF test_end_time - test_start_time > 0
                         THEN test_end_time - test_start_time ELSE 0)

\* Places of a connection whose _handle_client is being executed, from
\* the receive up to the close of its socket.
HandlingPcs == { "recv", "dispatch", "served_wr", "served_rd2", "served_wr2",
                 "count_acq", "count_wr", "send", "close" }

Handling == {c \in Conns : pc[c] \in HandlingPcs}

\* C31: in the concurrent server at most max_workers connections are
\* being handled at the same time; a queued connection stays queued while
\* max_workers tasks are running, and it is started once a worker is free
\* (no worker becomes free when stop() waits for the pool while the main
\* thread holds stats_lock, or when every worker serves a slow peer).
C31_BoundedPool ==
    /\ [](variant = "concurrent" => Cardinality(Handling) <= max_workers)
    /\ [][\A c \in Conns :
            (pc[c] = "queued" /\ Cardinality(RunningTasks) >= max_workers)
            => pc'[c] = "queued"]_vars
    /\ \A c \in Conns :
         (pc[c] = "queued")
           ~> \/ pc[c] # "queued"
              \/ sig = "stopping" /\ stats_lock = Main
              \/ Cardinality({d \in SlowPeers : pc[d] = "recv"}) >= max_workers

C31_Witness ==
    /\ variant = "concurrent"
    /\ Cardinality(Handling) = max_workers
    /\ queue # << >>

\* The order of the places of one connection in the concurrent server.
StepOrder ==
    { <<"new", "accepted">>, <<"accepted", "queued">>, <<"queued", "recv">>,
      <<"recv", "dispatch">>, <<"recv", "send">>, <<"recv", "close">>,
      <<"dispatch", "served_wr">>, <<"served_wr", "served_rd2">>,
      <<"served_wr", "count_acq">>, <<"served_rd2", "served_wr2">>,
      <<"served_wr2", "count_acq">>, <<"count_acq", "count_wr">>,
      <<"count_wr", "send">>, <<"send", "close">>,
      <<"close", "cb_acq">>, <<"close", "finished">>, <<"cb_acq", "cb_wr">>,
      <<"cb_wr", "done">>, <<"finished", "done">> }

\* C32: in the concurrent server every connection takes its steps in the
\* order receive, parse and check, dispatch, respond, close, whatever the
\* other workers do: a response is written only from the respond step, for
\* a request that was parsed and either passed the check or was given the
\* status of its rejection; a handler runs only for a request that passed
\* the check.
C32_StepOrder ==
    [][variant = "concurrent" =>
         \A c \in Conns :
           /\ pc'[c] # pc[c] => <<pc[c], pc'[c]>> \in StepOrder
           /\ (wire'[c] # wire[c] /\ wire'[c] # "none") =>
                 /\ pc[c] = "send"
                 /\ req[c] # NoReq
                 /\ is_valid(req[c]) \/ resp[c] = RejectStatus(req[c])
           /\ pc'[c] \in UncountedPcs \cup {"dispatch"} => is_valid(req'[c])
      ]_vars

C32_Witness ==
    /\ variant = "concurrent"
    /\ \E c, d \in Conns :
         /\ c # d
         /\ pc[c] = "close" /\ wire[c] = "sent"
         /\ pc[d] \in UncountedPcs
         /\ is_valid(req[d])

\* C37: a request that is rejected at the connection boundary, or that
\* is empty, goes from the receive to the send of its 400 or 401 (or
\* straight to the close) and on to the close without a handler step, and
\* these steps leave requests_processed, errors_count and requests_served
\* as they are.
C37_RejectedNotCounted ==
    [][\A c \in Conns :
         /\ (pc[c] = "recv" /\ pc'[c] # "recv" /\ ~is_valid(req'[c])) =>
               /\ pc'[c] \in {"send", "close"}
               /\ pc'[c] = "send" => resp'[c] \in {400, 401}
               /\ UNCHANGED << requests_processed, errors_count, requests_served >>
         /\ (pc[c] = "send" /\ ~is_valid(req[c]) /\ pc'[c] # "send") =>
               /\ pc'[c] = "close"
               /\ UNCHANGED << requests_processed, errors_count, requests_served >>
         /\ (pc[c] = "close" /\ pc'[c] # "close") =>
               UNCHANGED << requests_processed, errors_count, requests_served >>
      ]_vars

C37_Witness ==
    \E c \in Conns :
        /\ pc[c] = "close"
        /\ wire[c] = "sent"
        /\ n_disp = 0
        /\ requests_processed = 0 /\ errors_count = 0 /\ requests_served = 0

\* C38: as long as no connection was accepted, errors_count is 0, also
\* when the server is stopped while its loop waits in accept().
C38_StopNotAnError ==
    (\A c \in Conns : pc[c] = "new") => errors_count = 0

\* C33: the identity check is decided by the last header line whose key,
\* up to its first colon and in lower case, is x-custom-id: the request
\* passes the check exactly when the value of that line, everything after
\* its first colon, is the token.
C33_LastHeaderWins ==
    LET r   == ParseRequest(raw)
        hl  == HeaderLines(raw)
        ids == {i \in 1..Len(hl) : ColonPos(hl[i]) > 0
                                    /\ Lower(hl[i][1]) = "x-custom-id"
                                    /\ ColonPos(hl[i]) = 2}
        last == CHOOSE i \in ids : \A j \in ids : j <= i
    IN ws_pc # "raw" =>
         /\ r.has_cid <=> ids # {}
         /\ r.custom_id_valid <=>
               /\ ids # {}
               /\ SubSeq(hl[last], 3, Len(hl[last])) = <<gerar_custom_id>>
         /\ r.valid => (response.status_code = 401 <=> ~r.custom_id_valid)

C33_Witness ==
    /\ ws_pc = "built"
    /\ Len(raw) >= 3
    /\ raw[2] = IdBad /\ raw[3] = IdCaps
    /\ ParseRequest(raw).custom_id_valid
    /\ response.status_code # 401

\* C34: the parsed body is the text after the first empty line of the
\* request, and a request without an empty line has no body.
C34_BodyAfterBlank ==
    ws_pc # "raw" =>
        ParseRequest(raw).body = (IF BlankPos(raw) = 0 THEN << >>
                                  ELSE Slice(raw, BlankPos(raw) + 1, Len(raw)))

\* C35: get_custom_id_status gives MISSING exactly when no x-custom-id
\* header was parsed, VALID exactly when the header is there and equal to
\* the token, INVALID exactly when it is there and different; is_valid()
\* holds only for a VALID request.
C35_StatusClasses ==
    LET r == ParseRequest(raw)
        present == HasHeader(raw, XCustomId)
        equal == present /\ HeaderGet(raw, XCustomId) = <<gerar_custom_id>>
    IN ws_pc # "raw" =>
         /\ get_custom_id_status(r) \in {"MISSING", "VALID", "INVALID"}
         /\ get_custom_id_status(r) = "MISSING" <=> ~present
         /\ get_custom_id_status(r) = "VALID" <=> equal
         /\ get_custom_id_status(r) = "INVALID" <=> (present /\ ~equal)
         /\ is_valid(r) => get_custom_id_status(r) = "VALID"
         /\ response.status_code \notin {400, 401} => get_custom_id_status(r) = "VALID"

C35_Witness ==
    /\ ws_pc = "built"
    /\ get_custom_id_status(ParseRequest(raw)) = "MISSING"
    /\ ParseRequest(raw).valid
    /\ response.status_code = 401

\* C39: in the concurrent server a connection handed to the pool whose
\* peer completes its request is handled and closed, even when the peer
\* of an earlier connection never completes its own (fewer slow peers
\* than workers, every thread scheduled, and stop() not waiting for the
\* pool while the main thread holds stats_lock).
C39_SlowPeerNoBlock ==
    \A c \in Conns \ SlowPeers :
        (variant = "concurrent" /\ pc[c] = "queued")
          ~> (sock[c] = "closed" \/ (sig = "stopping" /\ stats_lock = Main))

C39_Witness ==
    /\ variant = "concurrent"
    /\ Cardinality(SlowPeers) < max_workers
    /\ pc[1] = "recv"
    /\ pc[2] = "done" /\ sock[2] = "closed"
    /\ pc[3] = "new"
    /\ requests_processed = 1

\* C36: at most one response is written on a connection: what is on the
\* socket holds at most one status line, and the 500 of the except clause
\* is sent only when no byte of another response was written.
C36_OneResponse ==
    /\ Cardinality({i \in 1..Len(out) : out[i] = "HTTP/1.1"}) <= 1
    /\ ws_pc = "send_500" => out = << >>
    /\ (ws_pc \in {"close", "closed"} /\ out # << >>) =>
          out = SubSeq(to_bytes(response), 1, Len(out))

C36_Witness ==
    /\ ws_pc = "closed"
    /\ response.status_code = 200
    /\ Len(out) > 3
    /\ Len(out) < Len(to_bytes(response))
    /\ errors_count = 0

====
